---- MODULE Spec2Model ----
(***************************************************************************)
(* Model of the campaign dashboard's data pipeline: the working set        *)
(* (rawData), the import merge (mergeCampaignData), the enrichment merge   *)
(* (mergeFacebookData) and the external insights client                    *)
(* (fetchFacebookInsights), as written in src/utils.ts and driven by the   *)
(* handlers of src/App.tsx.                                                *)
(*                                                                         *)
(* Numbers are exact non-negative rationals <<n, d>> in lowest terms, so   *)
(* that the ratios the code computes (cpc, cpm, ctr, frequency) compare by *)
(* value.  JavaScript's undefined is Undef.  Campaign names are sequences  *)
(* of characters, so trimming and case folding are computed, not assumed.  *)
(* Dates are day numbers: the YYYY-MM-DD strings of the code order the     *)
(* same way as their day numbers.  The id field of a record (a random      *)
(* string used only as a rendering key) is left out.                       *)
(***************************************************************************)
EXTENDS Integers, Sequences, FiniteSets, TLC

\* ------------------------------------------------------------ bounds
MaxRows == 2        \* records in a working set, an uploaded workbook or a response page

\* ------------------------------------------------------------ numbers
Undef == <<>>

RECURSIVE GCD(_, _)
GCD(a, b) == IF b = 0 THEN a ELSE GCD(b, a % b)

Rat(n, d) == IF n = 0 THEN <<0, 1>> ELSE LET g == GCD(n, d) IN <<n \div g, d \div g>>
Num(k) == <<k, 1>>
RDiv(a, b) == Rat(a[1] * b[2], a[2] * b[1])
RMul(a, b) == Rat(a[1] * b[1], a[2] * b[2])
Positive(a) == a[1] > 0

\* JavaScript truthiness of an optional number: undefined and 0 are falsy.
Truthy(v) == v # Undef /\ v[1] # 0

\* ------------------------------------------------------------ campaign names
IsSpace(c) == c = " "

RECURSIVE TrimStart(_)
TrimStart(s) == IF s # <<>> /\ IsSpace(Head(s)) THEN TrimStart(Tail(s)) ELSE s

RECURSIVE TrimEnd(_)
TrimEnd(s) ==
  IF s # <<>> /\ IsSpace(s[Len(s)]) THEN TrimEnd(SubSeq(s, 1, Len(s) - 1)) ELSE s

\* String.prototype.trim
Trim(s) == TrimEnd(TrimStart(s))

UpperLetters == <<"A", "B", "C", "D", "E", "F", "G", "H", "I", "J", "K", "L", "M",
                  "N", "O", "P", "Q", "R", "S", "T", "U", "V", "W", "X", "Y", "Z">>
LowerLetters == <<"a", "b", "c", "d", "e", "f", "g", "h", "i", "j", "k", "l", "m",
                  "n", "o", "p", "q", "r", "s", "t", "u", "v", "w", "x", "y", "z">>

IsUpper(c) == \E i \in DOMAIN UpperLetters : UpperLetters[i] = c
IsLower(c) == \E i \in DOMAIN LowerLetters : LowerLetters[i] = c

LowerChar(c) ==
  IF IsUpper(c) THEN LowerLetters[CHOOSE i \in DOMAIN UpperLetters : UpperLetters[i] = c] ELSE c

\* String.prototype.toLowerCase
ToLowerCase(s) == [i \in 1..Len(s) |-> LowerChar(s[i])]

\* Campaign names as a source delivers them, before any trimming.
RawNames == {<<"A">>, <<"a">>, <<"A", " ">>}

Dates == {1, 2}

\* ------------------------------------------------------------ records
\* CampaignData (src/types.ts:2-22) without id.
Record(date, name, spent, cpc, roas, cvr, cpa) ==
  [date |-> date, campaignName |-> name,
   spent |-> spent, cpc |-> cpc, roas |-> roas, cvr |-> cvr, cpa |-> cpa,
   clicks |-> IF Positive(cpc) THEN RDiv(spent, cpc) ELSE Num(0),
   conversions |-> IF Positive(cpa) THEN RDiv(spent, cpa) ELSE Num(0),
   revenue |-> RMul(spent, roas),
   reach |-> Undef, impressions |-> Undef, cpm |-> Undef, ctr |-> Undef,
   linkClicks |-> Undef, frequency |-> Undef]

\* One worksheet row as readExcelFile maps it: the cells are already numbers,
\* the campaign name is trimmed, no enrichment field is set.
ExcelRecord(row) ==
  Record(row.date, Trim(row.name), row.spent, row.cpc, row.roas, row.cvr, row.cpa)

\* One stored row as parseSheetData maps it.  The enrichment columns Reach,
\* Impressions, CPM, CTR, Frequency are read when the sheet has them (fb is the
\* five parsed cells, an empty cell parsing to 0) and are undefined otherwise;
\* linkClicks is never read back.
SheetRecord(row) ==
  LET r == Record(row.date, Trim(row.name), row.spent, row.cpc, row.roas, row.cvr, row.cpa)
  IN  IF row.fb = Undef THEN r
      ELSE [r EXCEPT !.reach = row.fb[1], !.impressions = row.fb[2], !.cpm = row.fb[3],
                     !.ctr = row.fb[4], !.frequency = row.fb[5]]

\* ------------------------------------------------------------ sorting
\* Array.prototype.sort with (a, b) => time(a.date) - time(b.date): stable.
RECURSIVE InsertByDate(_, _)
InsertByDate(sorted, x) ==
  IF sorted = <<>> THEN <<x>>
  ELSE LET last == sorted[Len(sorted)]
       IN  IF last.date <= x.date THEN Append(sorted, x)
           ELSE Append(InsertByDate(SubSeq(sorted, 1, Len(sorted) - 1), x), last)

RECURSIVE SortFrom(_, _, _)
SortFrom(s, i, acc) ==
  IF i > Len(s) THEN acc ELSE SortFrom(s, i + 1, InsertByDate(acc, s[i]))

\* Faulty variant: the merge returns Array.from(map.values()) unsorted.
SortByDate_skipped(s) == s

SortByDate(s) == SortFrom(s, 1, <<>>)

\* ------------------------------------------------------------ Map<string, CampaignData>
\* A Map is a sequence of [key, value] entries in insertion order; set() on a
\* key that is present replaces the value in place.
MapIndex(m, k) ==
  IF \E i \in 1..Len(m) : m[i].key = k
  THEN CHOOSE i \in 1..Len(m) : m[i].key = k
  ELSE 0

\* Faulty variant: set() that never finds the key and always appends.
MapSet_append(m, k, v) == Append(m, [key |-> k, value |-> v])

MapSet(m, k, v) ==
  LET i == MapIndex(m, k)
  IN  IF i = 0 THEN Append(m, [key |-> k, value |-> v])
      ELSE [m EXCEPT ![i] = [key |-> k, value |-> v]]

MapValues(m) == [i \in 1..Len(m) |-> m[i].value]

\* ------------------------------------------------------------ mergeCampaignData
\* `${item.date}|${item.campaignName}`
ImportKey(item) == <<item.date, item.campaignName>>

RECURSIVE SetExisting(_, _, _)
SetExisting(existing, i, m) ==
  IF i > Len(existing) THEN m
  ELSE SetExisting(existing, i + 1, MapSet(m, ImportKey(existing[i]), existing[i]))

\* Faulty variant: the incoming record is stored as it came.
KeepField_dropped(mine, theirs) == mine

KeepField(mine, theirs) == IF ~Truthy(mine) /\ Truthy(theirs) THEN theirs ELSE mine

\* "Keep FB data if incoming (from excel) doesn't have it"
KeepFbData(item, existingItem) ==
  [item EXCEPT !.reach = KeepField(item.reach, existingItem.reach),
               !.impressions = KeepField(item.impressions, existingItem.impressions),
               !.cpm = KeepField(item.cpm, existingItem.cpm),
               !.ctr = KeepField(item.ctr, existingItem.ctr),
               !.frequency = KeepField(item.frequency, existingItem.frequency),
               !.linkClicks = KeepField(item.linkClicks, existingItem.linkClicks)]

\* The body of incoming.forEach: the incoming item, with the enrichment of the
\* record it replaces, is set under its key whether or not the key was present.
\* Faulty variant: an incoming item is set only under a key that is not present.
SetIncoming_localWins(m, item) ==
  IF MapIndex(m, ImportKey(item)) = 0 THEN MapSet(m, ImportKey(item), item) ELSE m

SetIncoming(m, item) ==
  LET i == MapIndex(m, ImportKey(item))
  IN  MapSet(m, ImportKey(item), IF i = 0 THEN item ELSE KeepFbData(item, m[i].value))

RECURSIVE ForEachIncoming(_, _, _)
ForEachIncoming(incoming, i, m) ==
  IF i > Len(incoming) THEN m
  ELSE ForEachIncoming(incoming, i + 1, SetIncoming(m, incoming[i]))

\* Faulty variant: the two arrays are concatenated instead of keyed.
mergeCampaignData_concat(existing, incoming) == SortByDate(existing \o incoming)

mergeCampaignData(existing, incoming) ==
  SortByDate(MapValues(ForEachIncoming(incoming, 1, SetExisting(existing, 1, <<>>))))

\* ------------------------------------------------------------ mergeFacebookData
\* `${item.date}|${item.campaignName.trim()}`
EnrichKey(item) == <<item.date, Trim(item.campaignName)>>

RECURSIVE SetSheetData(_, _, _)
SetSheetData(sheetData, i, m) ==
  IF i > Len(sheetData) THEN m
  ELSE SetSheetData(sheetData, i + 1, MapSet(m, EnrichKey(sheetData[i]), sheetData[i]))

\* Faulty variant: the overlay takes the API's cpc with it.
Overlay_cpc(existing, fbItem) ==
  [existing EXCEPT !.reach = fbItem.reach, !.impressions = fbItem.impressions,
                   !.cpm = fbItem.cpm, !.ctr = fbItem.ctr,
                   !.linkClicks = fbItem.linkClicks, !.frequency = fbItem.frequency,
                   !.cpc = fbItem.cpc]

\* Faulty variant: the API is the truth source for spent and cpc too.
Overlay_truthSource(existing, fbItem) ==
  [existing EXCEPT !.reach = fbItem.reach, !.impressions = fbItem.impressions,
                   !.cpm = fbItem.cpm, !.ctr = fbItem.ctr,
                   !.linkClicks = fbItem.linkClicks, !.frequency = fbItem.frequency,
                   !.spent = fbItem.spent, !.cpc = fbItem.cpc]

\* { ...existing, reach, impressions, cpm, ctr, linkClicks, frequency }
Overlay(existing, fbItem) ==
  [existing EXCEPT !.reach = fbItem.reach, !.impressions = fbItem.impressions,
                   !.cpm = fbItem.cpm, !.ctr = fbItem.ctr,
                   !.linkClicks = fbItem.linkClicks, !.frequency = fbItem.frequency]

\* The body of fbData.forEach: only a key that is present is set.
\* Faulty variant: an external row with no matching key is inserted.
SetFbItem_insert(m, fbItem) ==
  LET i == MapIndex(m, EnrichKey(fbItem))
  IN  MapSet(m, EnrichKey(fbItem), IF i = 0 THEN fbItem ELSE Overlay(m[i].value, fbItem))

SetFbItem(m, fbItem) ==
  LET i == MapIndex(m, EnrichKey(fbItem))
  IN  IF i = 0 THEN m ELSE MapSet(m, EnrichKey(fbItem), Overlay(m[i].value, fbItem))

RECURSIVE ForEachFbItem(_, _, _)
ForEachFbItem(fbData, i, m) ==
  IF i > Len(fbData) THEN m
  ELSE ForEachFbItem(fbData, i + 1, SetFbItem(m, fbData[i]))

mergeFacebookData(sheetData, fbData) ==
  SortByDate(MapValues(ForEachFbItem(fbData, 1, SetSheetData(sheetData, 1, <<>>))))

\* ------------------------------------------------------------ fetchFacebookInsights: one entry
\* parseFloat(x || '0') and parseInt(x || '0') of a numeric string the API sends,
\* or of a field it leaves out.
ParseOrZero(x) == IF x = Undef THEN Num(0) ELSE x

\* item.actions.find(action => action.action_type === type), then its value
FirstAction(actions, type) ==
  IF actions # Undef /\ \E i \in 1..Len(actions) : actions[i].action_type = type
  THEN LET i == CHOOSE j \in 1..Len(actions) :
                  /\ actions[j].action_type = type
                  /\ \A k \in 1..(j - 1) : actions[k].action_type # type
       IN  ParseOrZero(actions[i].value)
  ELSE Num(0)

\* The record result.data.map builds for one raw entry.
InsightRecord(item) ==
  LET spent == ParseOrZero(item.spend)
      impressions == ParseOrZero(item.impressions)
      reach == ParseOrZero(item.reach)
      linkClicks == FirstAction(item.actions, "link_click")
  IN  [date |-> item.date_start, campaignName |-> item.campaign_name,
       spent |-> spent,
       cpc |-> IF Positive(linkClicks) THEN RDiv(spent, linkClicks) ELSE Num(0),
       roas |-> Num(0), cvr |-> Num(0), cpa |-> Num(0),
       clicks |-> linkClicks, conversions |-> Num(0), revenue |-> Num(0),
       reach |-> reach, impressions |-> impressions,
       cpm |-> IF Positive(impressions) THEN RDiv(spent, RDiv(impressions, Num(1000))) ELSE Num(0),
       ctr |-> IF Positive(impressions) THEN RDiv(linkClicks, impressions) ELSE Num(0),
       linkClicks |-> linkClicks,
       frequency |-> IF Positive(reach) THEN RDiv(impressions, reach) ELSE Num(0)]

MapEntries(data) == [i \in 1..Len(data) |-> InsightRecord(data[i])]

\* ------------------------------------------------------------ input domains
SeqUpTo(S, n) == UNION {[1..k -> S] : k \in 0..n}

\* The numeric cells of a row: spent, cpc, roas, cvr, cpa.
StoredCells == [spent |-> Num(100), cpc |-> Num(2), roas |-> Rat(1, 2), cvr |-> Rat(1, 20), cpa |-> Num(50)]
UploadedCells == [spent |-> Num(300), cpc |-> Num(0), roas |-> Num(1), cvr |-> Num(0), cpa |-> Num(0)]

RowOf(date, name, cells) ==
  [date |-> date, name |-> name, spent |-> cells.spent, cpc |-> cells.cpc,
   roas |-> cells.roas, cvr |-> cells.cvr, cpa |-> cells.cpa]

\* Raw API entries: one that carries every metric, for each date and name, and one
\* that leaves every metric out.
FullMetrics ==
  [spend |-> Num(30), impressions |-> Num(1000), reach |-> Num(500),
   actions |-> << [action_type |-> "omni_purchase", value |-> Num(1)],
                  [action_type |-> "link_click", value |-> Num(10)] >>]
NoMetrics == [spend |-> Undef, impressions |-> Undef, reach |-> Undef, actions |-> Undef]

EntryNames == {<<"a">>, <<"A", " ">>}

EntryOf(d, n, p) ==
  [date_start |-> d, campaign_name |-> n, spend |-> p.spend, impressions |-> p.impressions,
   reach |-> p.reach, actions |-> p.actions]

ApiEntries ==
  {EntryOf(d, n, FullMetrics) : d \in Dates, n \in EntryNames}
    \cup {EntryOf(1, <<"A", " ">>, NoMetrics)}

\* Records readExcelFile can deliver.
ExcelRecords == { ExcelRecord(RowOf(d, n, UploadedCells)) : d \in Dates, n \in RawNames }

SheetRowOf(date, name, cells, fb) ==
  [date |-> date, name |-> name, spent |-> cells.spent, cpc |-> cells.cpc,
   roas |-> cells.roas, cvr |-> cells.cvr, cpa |-> cells.cpa, fb |-> fb]

EmptyFbCells == <<Num(0), Num(0), Num(0), Num(0), Num(0)>>

\* Records the working set can hold: read from a store that has no enrichment
\* columns, read from a store whose enrichment cells are empty, or enriched by
\* a sync.
WorkingRecords ==
  {SheetRecord(SheetRowOf(d, n, StoredCells, Undef)) : d \in Dates, n \in RawNames}
    \cup {SheetRecord(SheetRowOf(1, n, StoredCells, EmptyFbCells)) : n \in RawNames}
    \cup {Overlay(SheetRecord(SheetRowOf(1, n, StoredCells, Undef)),
                  InsightRecord(EntryOf(1, n, FullMetrics))) : n \in RawNames}

\* ------------------------------------------------------------ cells
\* A cell of a sheet (JSON) is a number, a string, a boolean or is missing
\* (undefined or null).  A string is a sequence of characters.
NumCell(r) == [t |-> "number", n |-> r, s |-> <<>>, b |-> FALSE]
StrCell(s) == [t |-> "string", n |-> Num(0), s |-> s, b |-> FALSE]
BoolCell(b) == [t |-> "boolean", n |-> Num(0), s |-> <<>>, b |-> b]
NoCell == [t |-> "undefined", n |-> Num(0), s |-> <<>>, b |-> FALSE]

\* !value
Falsy(cell) ==
  \/ cell.t = "undefined"
  \/ cell.t = "number" /\ cell.n[1] = 0
  \/ cell.t = "string" /\ cell.s = <<>>
  \/ cell.t = "boolean" /\ ~cell.b

DigitChars == <<"0", "1", "2", "3", "4", "5", "6", "7", "8", "9">>
IsDigit(c) == \E i \in DOMAIN DigitChars : DigitChars[i] = c
DigitValue(c) == (CHOOSE i \in DOMAIN DigitChars : DigitChars[i] = c) - 1

RECURSIVE DigitCount(_)
DigitCount(s) == IF s # <<>> /\ IsDigit(Head(s)) THEN 1 + DigitCount(Tail(s)) ELSE 0

RECURSIVE DigitsValue(_, _)
DigitsValue(s, acc) ==
  IF s = <<>> THEN acc ELSE DigitsValue(Tail(s), 10 * acc + DigitValue(Head(s)))

RECURSIVE PowerOfTen(_)
PowerOfTen(k) == IF k = 0 THEN 1 ELSE 10 * PowerOfTen(k - 1)

Drop(s, k) == SubSeq(s, k + 1, Len(s))

\* String(n) for a non-negative integer n: its decimal digits.
RECURSIVE DecimalDigits(_)
DecimalDigits(n) ==
  IF n < 10 THEN <<DigitChars[n + 1]>>
  ELSE Append(DecimalDigits(n \div 10), DigitChars[(n % 10) + 1])

\* String(value), as parseSheetData applies it to header cells and to the
\* campaign cell.  Number cells in those places hold non-negative integers.
StringOf(cell) ==
  IF cell.t = "string" THEN cell.s
  ELSE IF cell.t = "number" THEN DecimalDigits(cell.n[1])
  ELSE IF cell.t = "boolean"
  THEN (IF cell.b THEN <<"t", "r", "u", "e">> ELSE <<"f", "a", "l", "s", "e">>)
  ELSE <<"u", "n", "d", "e", "f", "i", "n", "e", "d">>

\* parseFloat: leading blanks, an optional sign, the longest prefix that reads
\* digits [. digits] or . digits; NaN when there is none.  Exponents and
\* "Infinity" are not read: no input of the model holds them.
ParseFloat(str) ==
  LET s0 == TrimStart(str)
      signed == s0 # <<>> /\ Head(s0) \in {"-", "+"}
      negative == s0 # <<>> /\ Head(s0) = "-"
      s1 == IF signed THEN Tail(s0) ELSE s0
      ni == DigitCount(s1)
      s2 == Drop(s1, ni)
      dotted == s2 # <<>> /\ Head(s2) = "."
      nf == IF dotted THEN DigitCount(Tail(s2)) ELSE 0
      whole == DigitsValue(SubSeq(s1, 1, ni), 0)
      frac == IF dotted THEN DigitsValue(SubSeq(Tail(s2), 1, nf), 0) ELSE 0
      magnitude == whole * PowerOfTen(nf) + frac
  IN  IF ni = 0 /\ nf = 0 THEN [nan |-> TRUE, v |-> Num(0)]
      ELSE [nan |-> FALSE,
            v |-> Rat(IF negative THEN 0 - magnitude ELSE magnitude, PowerOfTen(nf))]

RemoveAll(s, c) == SelectSeq(s, LAMBDA x : x # c)

\* String.prototype.replace(c, ''): the first occurrence only.
RemoveFirst(s, c) ==
  IF \E i \in 1..Len(s) : s[i] = c
  THEN LET i == CHOOSE j \in 1..Len(s) : s[j] = c /\ \A k \in 1..(j - 1) : s[k] # c
       IN  SubSeq(s, 1, i - 1) \o SubSeq(s, i + 1, Len(s))
  ELSE s

Returned(r) == [threw |-> FALSE, v |-> r]
TypeError == [threw |-> TRUE, v |-> Num(0)]

\* x || 0 for the result of parseFloat: NaN and 0 give 0.
OrZero(f) == IF f.nan THEN Num(0) ELSE f.v

\* parseNumber: a number as it is; a falsy value 0; a string without its
\* commas, trimmed, "-" and "" giving 0, unreadable text giving 0.  A value
\* that is neither (the boolean true) has no replace method: TypeError.
parseNumber(value) ==
  IF value.t = "number" THEN Returned(value.n)
  ELSE IF Falsy(value) THEN Returned(Num(0))
  ELSE IF value.t # "string" THEN TypeError
  ELSE LET clean == Trim(RemoveAll(value.s, ","))
       IN  IF clean = <<"-">> \/ clean = <<>> THEN Returned(Num(0))
           ELSE Returned(OrZero(ParseFloat(clean)))

\* parsePercentage: as parseNumber, without the first "%" and divided by 100.
parsePercentage(value) ==
  IF value.t = "number" THEN Returned(value.n)
  ELSE IF Falsy(value) THEN Returned(Num(0))
  ELSE IF value.t # "string" THEN TypeError
  ELSE LET clean == Trim(RemoveFirst(value.s, "%"))
           f == ParseFloat(clean)
       IN  IF clean = <<"-">> \/ clean = <<>> THEN Returned(Num(0))
           ELSE Returned(OrZero([nan |-> f.nan, v |-> RDiv(f.v, Num(100))]))

\* ------------------------------------------------------------ dates
\* The day number of a date is its count of days since 1970-01-01.
ExcelEpochOffset == 25569

IsLeap(y) == (y % 4 = 0 /\ y % 100 # 0) \/ y % 400 = 0
DaysInMonth(y, m) ==
  IF m = 2 THEN (IF IsLeap(y) THEN 29 ELSE 28)
  ELSE IF m \in {4, 6, 9, 11} THEN 30 ELSE 31

DaysFromCivil(year, m, d) ==
  LET y == IF m <= 2 THEN year - 1 ELSE year
      era == y \div 400
      yoe == y - era * 400
      doy == (153 * (IF m > 2 THEN m - 3 ELSE m + 9) + 2) \div 5 + d - 1
      doe == yoe * 365 + yoe \div 4 - yoe \div 100 + doy
  IN  era * 146097 + doe - 719468

ValidDate(d) == [ok |-> TRUE, day |-> d]
InvalidDate == [ok |-> FALSE, day |-> 0]

\* new Date(string) for the date-only form YYYY-MM-DD (read as UTC); any
\* other text of the model's inputs is not a date.
DateOfString(s) ==
  IF /\ Len(s) = 10
     /\ s[5] = "-" /\ s[8] = "-"
     /\ \A i \in {1, 2, 3, 4, 6, 7, 9, 10} : IsDigit(s[i])
  THEN LET y == DigitsValue(SubSeq(s, 1, 4), 0)
           m == DigitsValue(SubSeq(s, 6, 7), 0)
           d == DigitsValue(SubSeq(s, 9, 10), 0)
       IN  IF m \in 1..12 /\ d \in 1..DaysInMonth(y, m)
           THEN ValidDate(DaysFromCivil(y, m, d)) ELSE InvalidDate
  ELSE InvalidDate

\* normalizeDate: a number is a spreadsheet serial date, a string is parsed,
\* any other value is converted to a number of milliseconds (true: 1); a
\* time out of the range of Date gives ''.
normalizeDate(dateInput) ==
  IF dateInput.t = "number"
  THEN LET num == dateInput.n[1] - ExcelEpochOffset * dateInput.n[2]
           den == dateInput.n[2]
       IN  IF num >= (0 - 100000000) * den /\ num <= 100000000 * den
           THEN ValidDate(num \div den) ELSE InvalidDate
  ELSE IF dateInput.t = "string" THEN DateOfString(dateInput.s)
  ELSE IF dateInput.t = "boolean" THEN ValidDate(0)
  ELSE InvalidDate

\* ------------------------------------------------------------ parseSheetData
\* Header names.  A character outside ASCII is written as its code point.
DateNames == << <<"U+65E5", "U+671F">>, <<"D", "a", "t", "e">> >>
CampaignNames ==
  << <<"U+5EE3", "U+544A", "U+6D3B", "U+52D5">>,
     <<"C", "a", "m", "p", "a", "i", "g", "n">>,
     <<"C", "a", "m", "p", "a", "i", "g", "n", " ", "N", "a", "m", "e">> >>
SpentNames == << <<"U+8CBB", "U+7528">>, <<"s", "p", "e", "n", "t">>, <<"S", "p", "e", "n", "t">> >>
CpcNames == << <<"U+6D41", "U+91CF", "U+6210", "U+672C">>, <<"c", "p", "c">>, <<"C", "P", "C">> >>
RoasNames == << <<"R", "O", "A", "S">>, <<"r", "o", "a", "s">> >>
CvrNames == << <<"C", "V", "R">>, <<"c", "v", "r">> >>
CpaNames == << <<"C", "P", "A">>, <<"c", "p", "a">> >>
ReachNames == << <<"R", "e", "a", "c", "h">>, <<"r", "e", "a", "c", "h">> >>
ImpressionsNames ==
  << <<"I", "m", "p", "r", "e", "s", "s", "i", "o", "n", "s">>,
     <<"i", "m", "p", "r", "e", "s", "s", "i", "o", "n", "s">> >>
CpmNames == << <<"C", "P", "M">>, <<"c", "p", "m">> >>
CtrNames == << <<"C", "T", "R">>, <<"c", "t", "r">> >>
FrequencyNames ==
  << <<"F", "r", "e", "q", "u", "e", "n", "c", "y">>,
     <<"f", "r", "e", "q", "u", "e", "n", "c", "y">> >>

\* /^[a-zA-Z]+$/
IsEnglish(c) == c # <<>> /\ \A i \in 1..Len(c) : IsUpper(c[i]) \/ IsLower(c[i])

\* String.prototype.includes
Includes(h, sub) ==
  \E i \in 1..(Len(h) - Len(sub) + 1) : SubSeq(h, i, i + Len(sub) - 1) = sub

\* Array.prototype.findIndex, counting from 1, 0 when no element satisfies P.
FirstHeader(headers, P(_)) ==
  IF \E i \in 1..Len(headers) : P(headers[i])
  THEN CHOOSE i \in 1..Len(headers) : P(headers[i]) /\ \A j \in 1..(i - 1) : ~P(headers[j])
  ELSE 0

RECURSIVE FindByName(_, _, _)
FindByName(headers, candidates, k) ==
  IF k > Len(candidates) THEN 0
  ELSE LET exact == FirstHeader(headers, LAMBDA h : h = candidates[k])
           folded == FirstHeader(headers,
                       LAMBDA h : ToLowerCase(h) = ToLowerCase(candidates[k]))
       IN  IF exact # 0 THEN exact
           ELSE IF folded # 0 THEN folded
           ELSE FindByName(headers, candidates, k + 1)

RECURSIVE FindBySubstring(_, _, _)
FindBySubstring(headers, english, k) ==
  IF k > Len(english) THEN 0
  ELSE LET idx == FirstHeader(headers,
                    LAMBDA h : Includes(ToLowerCase(h), ToLowerCase(english[k])))
       IN  IF idx # 0 THEN idx ELSE FindBySubstring(headers, english, k + 1)

\* findIndex(candidates): the column of a field, 0 when the sheet has none.
findIndex(headers, candidates) ==
  LET byName == FindByName(headers, candidates, 1)
  IN  IF byName # 0 THEN byName
      ELSE FindBySubstring(headers, SelectSeq(candidates, IsEnglish), 1)

Columns(headers) ==
  [date |-> findIndex(headers, DateNames), campaign |-> findIndex(headers, CampaignNames),
   spent |-> findIndex(headers, SpentNames), cpc |-> findIndex(headers, CpcNames),
   roas |-> findIndex(headers, RoasNames), cvr |-> findIndex(headers, CvrNames),
   cpa |-> findIndex(headers, CpaNames), reach |-> findIndex(headers, ReachNames),
   impressions |-> findIndex(headers, ImpressionsNames), cpm |-> findIndex(headers, CpmNames),
   ctr |-> findIndex(headers, CtrNames), frequency |-> findIndex(headers, FrequencyNames)]

\* row[idx], undefined when there is no such column or the row is shorter.
CellAt(row, idx) == IF idx \in 1..Len(row) THEN row[idx] ELSE NoCell

\* The two tests that pass over a row: it is empty, its date cell or its
\* campaign cell is falsy, or its date does not normalise.
Skipped(row, col) ==
  \/ row = <<>>
  \/ Falsy(CellAt(row, col.date)) \/ Falsy(CellAt(row, col.campaign))
  \/ ~normalizeDate(CellAt(row, col.date)).ok

\* The numeric cells of a row, parsed; a field without a column is 0, an
\* enrichment field without a column is undefined.
ParsedCells(row, col) ==
  LET core(idx) == IF idx # 0 THEN parseNumber(CellAt(row, idx)) ELSE Returned(Num(0))
      extra(idx) == IF idx # 0 THEN parseNumber(CellAt(row, idx)) ELSE Returned(Undef)
  IN  [spent |-> core(col.spent), cpc |-> core(col.cpc), roas |-> core(col.roas),
       cvr |-> IF col.cvr # 0 THEN parsePercentage(CellAt(row, col.cvr)) ELSE Returned(Num(0)),
       cpa |-> core(col.cpa),
       reach |-> extra(col.reach), impressions |-> extra(col.impressions),
       cpm |-> extra(col.cpm),
       ctr |-> IF col.ctr # 0 THEN parsePercentage(CellAt(row, col.ctr)) ELSE Returned(Undef),
       frequency |-> extra(col.frequency)]

\* The record literal of data.push, from the parsed cells c of the row.
RecordOfCells(date, name, c) ==
  [Record(date, name, c.spent.v, c.cpc.v, c.roas.v, c.cvr.v, c.cpa.v)
     EXCEPT !.reach = c.reach.v, !.impressions = c.impressions.v, !.cpm = c.cpm.v,
            !.ctr = c.ctr.v, !.frequency = c.frequency.v]

\* The record pushed for a row that is not passed over.
RowRecord(row, col) ==
  RecordOfCells(normalizeDate(CellAt(row, col.date)).day,
                Trim(StringOf(CellAt(row, col.campaign))),
                ParsedCells(row, col))

\* A row whose date and campaign cells are truthy has its numeric cells
\* parsed before its date is normalised: one of them may throw.
RowThrows(row, col) ==
  /\ row # <<>>
  /\ ~Falsy(CellAt(row, col.date)) /\ ~Falsy(CellAt(row, col.campaign))
  /\ \E f \in DOMAIN ParsedCells(row, col) : ParsedCells(row, col)[f].threw

RECURSIVE ParseRows(_, _, _, _)
ParseRows(values, col, i, data) ==
  IF i > Len(values) THEN [threw |-> FALSE, data |-> data]
  ELSE IF RowThrows(values[i], col) THEN [threw |-> TRUE, data |-> <<>>]
  ELSE IF Skipped(values[i], col) THEN ParseRows(values, col, i + 1, data)
  ELSE ParseRows(values, col, i + 1, Append(data, RowRecord(values[i], col)))

\* parseSheetData(values): values[1] is the header row.
parseSheetData(values) ==
  IF values = Undef \/ Len(values) < 2 THEN [threw |-> FALSE, data |-> <<>>]
  ELSE ParseRows(values, Columns([i \in 1..Len(values[1]) |-> Trim(StringOf(values[1][i]))]),
                 2, <<>>)

\* ------------------------------------------------------------ state
VARIABLES
  mKind,      \* which merge is being applied: "import" or "enrich"
  mExisting,  \* its first argument: the working set
  mInput,     \* its second argument: the uploaded records, or the synced records
  mPc,        \* "ready" before the call, "done" after it
  mOut        \* the array the merge returned

VARIABLES
  fbPc,        \* fetchFacebookInsights: "idle", "awaiting" (request sent), "returned", "thrown"
  fbArgs,      \* its startDate and endDate arguments
  fbRequests,  \* the requests it has issued, in order
  fbInFlight,  \* how many of them have not been answered yet
  fbResponse,  \* the last response body it received
  fbResult,    \* the records it returned
  fbError      \* the message of the error it threw

VARIABLES
  variant,       \* which App component runs: 1 (src/App.tsx:20) or 2 (src/App.tsx:684)
  scriptUrl,     \* GOOGLE_APPS_SCRIPT_URL
  fbToken,       \* whether FACEBOOK_ACCESS_TOKEN is set
  rawData,       \* the working set
  notification,  \* the toast on screen, NoNote when there is none
  isLoadingData, isSavingToSheet, isFetchingFbData,
  load,          \* the run of fetchDataFromSheet
  upload,        \* the run of handleUpload
  sync,          \* the run of handleFacebookConnect (1) or handleManualFbLoad (2) from its button
  save,          \* the run of executeSaveToSheet from its button
  storeGets,     \* GET requests sent to the store
  storePosts,    \* POST requests sent to the store
  fbCalls,       \* calls of fetchFacebookInsights
  calls          \* handlers the user has started

VARIABLES
  pValues,    \* parseSheetData: its argument, the grid of cells
  pPc,        \* "ready" before the call, "done" after it
  pOut        \* what the call did: threw, or returned data

VARIABLES
  filteredData,  \* the records the table aggregates
  sortField,     \* the column the table is sorted by
  sortOrder,     \* "asc" or "desc"
  vPc,           \* "ready" before aggregatedTableData is computed, "done" after
  aggregatedTableData,
  chartData      \* the per-day entries of the charts

VARIABLES
  sheet,     \* the spreadsheet's sheet "Dashboard Data": whether it exists, and its cells
  lock,      \* LockService.getScriptLock(): "free", or the execution that holds it
  post,      \* the doPost execution: its position, its rows, what it returned
  get,       \* the doGet execution: its position, what it returned
  client,    \* the executeSaveToSheet call the store is serving, if any
  requests   \* how many executions have been started

mergeVars == <<mKind, mExisting, mInput, mPc, mOut>>
parseVars == <<pValues, pPc, pOut>>
viewVars == <<filteredData, sortField, sortOrder, vPc, aggregatedTableData, chartData>>
storeVars == <<sheet, lock, post, get, client, requests>>
fetchVars == <<fbPc, fbArgs, fbRequests, fbInFlight, fbResponse, fbResult, fbError>>
appVars == <<variant, scriptUrl, fbToken, rawData, notification,
             isLoadingData, isSavingToSheet, isFetchingFbData,
             load, upload, sync, save, storeGets, storePosts, fbCalls, calls>>
vars == <<mKind, mExisting, mInput, mPc, mOut,
          fbPc, fbArgs, fbRequests, fbInFlight, fbResponse, fbResult, fbError,
          variant, scriptUrl, fbToken, rawData, notification,
          isLoadingData, isSavingToSheet, isFetchingFbData,
          load, upload, sync, save, storeGets, storePosts, fbCalls, calls,
          pValues, pPc, pOut,
          filteredData, sortField, sortOrder, vPc, aggregatedTableData, chartData,
          sheet, lock, post, get, client, requests>>
nonMergeVars == <<fetchVars, appVars, parseVars, viewVars, storeVars>>
nonFetchVars == <<mergeVars, appVars, parseVars, viewVars, storeVars>>
nonAppVars == <<mergeVars, fetchVars, parseVars, viewVars, storeVars>>
nonParseVars == <<mergeVars, fetchVars, appVars, viewVars, storeVars>>
nonViewVars == <<mergeVars, fetchVars, appVars, parseVars, storeVars>>
nonStoreVars == <<mergeVars, fetchVars, appVars, parseVars, viewVars>>

NoResponse == [kind |-> "none"]

FetchIdle ==
  /\ fbPc = "idle"
  /\ fbArgs = [startDate |-> Undef, endDate |-> Undef]
  /\ fbRequests = <<>>
  /\ fbInFlight = 0
  /\ fbResponse = NoResponse
  /\ fbResult = <<>>
  /\ fbError = ""

MergeIdle ==
  /\ mKind = "none"
  /\ mExisting = <<>>
  /\ mInput = <<>>
  /\ mPc = "ready"
  /\ mOut = <<>>

ParseIdle == pValues = <<>> /\ pPc = "ready" /\ pOut = [threw |-> FALSE, data |-> <<>>]

\* useState<SortField>('spent'), useState<SortOrder>('desc')
ViewIdle ==
  /\ filteredData = <<>> /\ sortField = "spent" /\ sortOrder = "desc"
  /\ vPc = "ready" /\ aggregatedTableData = <<>> /\ chartData = <<>>

\* No sheet yet, no execution running.
NoSheet == [exists |-> FALSE, cells |-> <<>>]
NoResult == [status |-> "none", message |-> "", data |-> <<>>]
PostIdle == [pc |-> "idle", rows |-> <<>>, before |-> NoSheet, result |-> NoResult]
GetIdle ==
  [pc |-> "idle", held |-> FALSE, readAt |-> "idle", old |-> NoSheet, new |-> <<>>,
   result |-> NoResult]
NoCall == [pc |-> "none", variant |-> 1, data |-> <<>>, before |-> NoSheet]

StoreIdle ==
  /\ sheet = NoSheet /\ lock = "free"
  /\ post = PostIdle /\ get = GetIdle /\ client = NoCall /\ requests = 0

\* setNotification({ message, type }); a message is its text and, where the
\* code appends one, the message of the error it reports.
Note(message, type) == [message |-> message, type |-> type]
NoNote == Note(<<>>, "none")

DeployedUrl == "https://script.google.com/macros/s/AKfycbx/exec"

LoadIdle == [pc |-> "idle", parsed |-> <<>>, failure |-> "none"]
UploadIdle ==
  [pc |-> "idle", file |-> [corrupt |-> FALSE, rows |-> <<>>],
   raw |-> <<>>, newData |-> <<>>, merged |-> <<>>,
   failure |-> "none", lastSave |-> "none", saveFailed |-> FALSE]
SyncIdle == [pc |-> "idle", raw |-> <<>>, merged |-> <<>>, failure |-> "none", saveFailed |-> FALSE]
SaveIdle == [pc |-> "idle", failed |-> FALSE]

AppIdle ==
  /\ variant = 1 /\ scriptUrl = DeployedUrl /\ fbToken = FALSE
  /\ rawData = <<>> /\ notification = NoNote
  /\ isLoadingData = FALSE /\ isSavingToSheet = FALSE /\ isFetchingFbData = FALSE
  /\ load = LoadIdle /\ upload = UploadIdle /\ sync = SyncIdle /\ save = SaveIdle
  /\ storeGets = 0 /\ storePosts = 0 /\ fbCalls = 0 /\ calls = 0

\* ------------------------------------------------------------ the merges, applied
MergeInit ==
  /\ mKind \in {"import", "enrich"}
  /\ mExisting \in SeqUpTo(WorkingRecords, MaxRows)
  /\ mInput \in IF mKind = "import" THEN SeqUpTo(ExcelRecords, MaxRows)
                ELSE {MapEntries(data) : data \in SeqUpTo(ApiEntries, MaxRows)}
  /\ mPc = "ready"
  /\ mOut = <<>>
  /\ FetchIdle
  /\ AppIdle
  /\ ParseIdle
  /\ ViewIdle
  /\ StoreIdle

\* handleUpload: merged = mergeCampaignData(rawData, newData)
ImportMerge ==
  /\ mPc = "ready" /\ mKind = "import"
  /\ mOut' = mergeCampaignData(mExisting, mInput)
  /\ mPc' = "done"
  /\ UNCHANGED <<mKind, mExisting, mInput>>
  /\ UNCHANGED nonMergeVars

\* handleFacebookConnect / handleManualFbLoad: merged = mergeFacebookData(rawData, fbData)
EnrichMerge ==
  /\ mPc = "ready" /\ mKind = "enrich"
  /\ mOut' = mergeFacebookData(mExisting, mInput)
  /\ mPc' = "done"
  /\ UNCHANGED <<mKind, mExisting, mInput>>
  /\ UNCHANGED nonMergeVars

MergeNext == ImportMerge \/ EnrichMerge

MergeSpec == MergeInit /\ [][MergeNext]_vars

\* ------------------------------------------------------------ properties of the merges
EnrichmentFields == {"reach", "impressions", "cpm", "ctr", "frequency", "linkClicks"}
CoreFields == {"spent", "cpc", "roas", "cvr", "cpa", "clicks", "conversions", "revenue"}

Imported == mPc = "done" /\ mKind = "import"
Enriched == mPc = "done" /\ mKind = "enrich"

Indices(s) == 1..Len(s)

\* The last record of s stored under import key k (the one a Map built from s holds).
LastWithImportKey(s, k) ==
  s[CHOOSE i \in Indices(s) :
      /\ ImportKey(s[i]) = k
      /\ \A j \in (i + 1)..Len(s) : ImportKey(s[j]) # k]

LastWithEnrichKey(s, k) ==
  s[CHOOSE i \in Indices(s) :
      /\ EnrichKey(s[i]) = k
      /\ \A j \in (i + 1)..Len(s) : EnrichKey(s[j]) # k]

ImportKeys(s) == {ImportKey(s[i]) : i \in Indices(s)}
EnrichKeys(s) == {EnrichKey(s[i]) : i \in Indices(s)}
SharedImportKeys == ImportKeys(mExisting) \cap ImportKeys(mInput)
SharedEnrichKeys == EnrichKeys(mExisting) \cap EnrichKeys(mInput)

\* The result holds a record under import key k, and P is true of every such record.
ImportResultHas(k, f, v) ==
  /\ \E i \in Indices(mOut) : ImportKey(mOut[i]) = k
  /\ \A i \in Indices(mOut) : ImportKey(mOut[i]) = k => mOut[i][f] = v

EnrichResultHas(k, f, v) ==
  /\ \E i \in Indices(mOut) : EnrichKey(mOut[i]) = k
  /\ \A i \in Indices(mOut) : EnrichKey(mOut[i]) = k => mOut[i][f] = v

\* C1 as stated: after an import merge, for every key present in both sets and
\* every enrichment field, if no incoming record of that key carries a value and
\* the existing record has one (0 included), the result's record has the
\* existing record's value.
C1_KeepsEveryExistingValue ==
  Imported =>
    \A k \in SharedImportKeys : \A f \in EnrichmentFields :
      ( /\ \A i \in Indices(mInput) : ImportKey(mInput[i]) = k => mInput[i][f] = Undef
        /\ LastWithImportKey(mExisting, k)[f] # Undef )
      => ImportResultHas(k, f, LastWithImportKey(mExisting, k)[f])

\* C1 amended: the same, for an existing value that is not 0; an existing value
\* of 0 is not carried over and the result's field stays unset.
C1_KeepsNonZeroEnrichment ==
  Imported =>
    \A k \in SharedImportKeys : \A f \in EnrichmentFields :
      (\A i \in Indices(mInput) : ImportKey(mInput[i]) = k => mInput[i][f] = Undef)
      => LET mine == LastWithImportKey(mExisting, k)[f]
         IN  ImportResultHas(k, f, IF Truthy(mine) THEN mine ELSE Undef)

C1_Witness ==
  /\ Imported
  /\ \E k \in SharedImportKeys :
       /\ LastWithImportKey(mExisting, k).impressions = Num(1000)
       /\ LastWithImportKey(mInput, k).impressions = Undef
       /\ ImportResultHas(k, "impressions", Num(1000))

\* C2 as stated: after an import merge, for every key of the existing set the
\* result's record has the existing record's core fields (local wins).
C2_LocalWins ==
  Imported =>
    \A k \in ImportKeys(mExisting) : \A f \in CoreFields :
      ImportResultHas(k, f, LastWithImportKey(mExisting, k)[f])

\* C2 amended: every incoming row is set under its key whether or not a record
\* exists, so for every key of the import the result's record has the core
\* fields of the (last) incoming row; a key absent from the import keeps the
\* existing record.
C2_IncomingWins ==
  Imported =>
    /\ \A k \in ImportKeys(mInput) : \A f \in CoreFields :
         ImportResultHas(k, f, LastWithImportKey(mInput, k)[f])
    /\ \A k \in ImportKeys(mExisting) \ ImportKeys(mInput) :
         \E i \in Indices(mOut) : mOut[i] = LastWithImportKey(mExisting, k)

C2_Witness ==
  /\ Imported
  /\ \E k \in SharedImportKeys :
       /\ LastWithImportKey(mExisting, k).spent = Num(100)
       /\ LastWithImportKey(mInput, k).spent = Num(300)
       /\ ImportResultHas(k, "spent", Num(300))

\* C3: after an enrichment merge every record of the result has the key
\* (date, trimmed campaignName) of some record of the input working set.
C3_NeverOriginatesRecord ==
  Enriched => \A i \in Indices(mOut) : EnrichKey(mOut[i]) \in EnrichKeys(mExisting)

C3_Witness ==
  /\ Enriched
  /\ mExisting # <<>>
  /\ \E i \in Indices(mInput) : EnrichKey(mInput[i]) \notin EnrichKeys(mExisting)
  /\ \E i \in Indices(mInput) : EnrichKey(mInput[i]) \in EnrichKeys(mExisting)

\* C4 as stated: the result of an enrichment merge has exactly as many records
\* as the input working set, also when that set holds two records of one key.
C4_SameSize == Enriched => Len(mOut) = Len(mExisting)

\* C4 amended: the result has exactly one record per distinct key (date, trimmed
\* campaignName) of the input working set; its size is the input's size when
\* the input's keys are distinct and smaller otherwise, never larger.
C4_OneRecordPerKey ==
  Enriched =>
    /\ Len(mOut) = Cardinality(EnrichKeys(mExisting))
    /\ \A i, j \in Indices(mOut) : EnrichKey(mOut[i]) = EnrichKey(mOut[j]) => i = j
    /\ Len(mOut) <= Len(mExisting)

C4_Witness ==
  /\ Enriched
  /\ Len(mExisting) = 2
  /\ EnrichKey(mExisting[1]) = EnrichKey(mExisting[2])
  /\ Len(mOut) = 1
  /\ \E i \in Indices(mInput) : EnrichKey(mInput[i]) \notin EnrichKeys(mExisting)

C6_SortedByDate ==
  mPc = "done" => \A i \in 1..(Len(mOut) - 1) : mOut[i].date <= mOut[i + 1].date

C6_Witness ==
  /\ mPc = "done"
  /\ Len(mExisting) = 2 /\ mExisting[1].date > mExisting[2].date
  /\ Len(mOut) >= 2 /\ mOut[1].date < mOut[Len(mOut)].date

\* C7 as stated: both merges compare (date, campaignName) without regard to
\* letter case and to leading or trailing whitespace: the result of a merge
\* holds no two records whose keys differ only that way, and an external row
\* enriches the working-set record whose key differs from its own only that way.
FoldedKey(item) == <<item.date, ToLowerCase(Trim(item.campaignName))>>

C7_KeyIgnoresCaseAndSpace ==
  mPc = "done" =>
    /\ \A i, j \in Indices(mOut) : FoldedKey(mOut[i]) = FoldedKey(mOut[j]) => i = j
    /\ Enriched =>
         \A i \in Indices(mOut) : \A j \in Indices(mInput) :
           ( /\ FoldedKey(mOut[i]) = FoldedKey(mInput[j])
             /\ \A n \in (j + 1)..Len(mInput) : FoldedKey(mInput[n]) # FoldedKey(mInput[j]) )
           => mOut[i].impressions = mInput[j].impressions

\* ------------------------------------------------------------ fetchFacebookInsights
\* The date-range part of the request URL: time_range={since, until} when both
\* dates are given, date_preset=maximum otherwise.
TimeRange(startDate, endDate) ==
  IF startDate # Undef /\ endDate # Undef
  THEN [kind |-> "time_range", since |-> startDate, until |-> endDate]
  ELSE [kind |-> "date_preset"]

\* Date ranges a caller asks for: a first day and a number of days, or no dates.
RangeStarts == {1, 10}
RangeSpans == {1, 30, 31, 65}
FetchArgs ==
  {[startDate |-> <<a>>, endDate |-> <<a + n - 1>>] : a \in RangeStarts, n \in RangeSpans}
    \cup {[startDate |-> Undef, endDate |-> Undef], [startDate |-> <<1>>, endDate |-> Undef]}

\* Response bodies of the insights API: an error object, or a page of entries
\* (data may be missing) with or without a cursor to a next page.
ApiMessages == {"Invalid OAuth 2.0 Access Token", "(#17) User request limit reached"}
ApiResponses ==
  {[kind |-> "error", message |-> msg] : msg \in ApiMessages}
    \cup {[kind |-> "page", data |-> d, next |-> n] :
            d \in {Undef} \cup {<<x>> : x \in SeqUpTo(ApiEntries, MaxRows)}, n \in BOOLEAN}

\* const response = await fetch(url): the one request of the call.
FbCall(args) ==
  /\ fbPc = "idle"
  /\ fbPc' = "awaiting"
  /\ fbArgs' = args
  /\ fbRequests' = Append(fbRequests, TimeRange(args.startDate, args.endDate))
  /\ fbInFlight' = fbInFlight + 1
  /\ UNCHANGED <<fbResponse, fbResult, fbError>>
  /\ UNCHANGED nonFetchVars

\* Faulty variant: an error response is logged and an empty list returned.
Outcome_swallowed(result) ==
  IF result.kind = "error" \/ result.data = Undef
  THEN [pc |-> "returned", records |-> <<>>, message |-> ""]
  ELSE [pc |-> "returned", records |-> MapEntries(result.data[1]), message |-> ""]

\* What the call makes of the response body: throw on result.error, [] when
\* result.data is missing, the mapped entries otherwise.
Outcome(result) ==
  IF result.kind = "error"
  THEN [pc |-> "thrown", records |-> <<>>, message |-> result.message]
  ELSE IF result.data = Undef
  THEN [pc |-> "returned", records |-> <<>>, message |-> ""]
  ELSE [pc |-> "returned", records |-> MapEntries(result.data[1]), message |-> ""]

\* The response arrives and the call runs to its end: it never reads the
\* cursor of the page and issues no further request.
FbReceive(result) ==
  /\ fbPc = "awaiting"
  /\ fbInFlight' = fbInFlight - 1
  /\ fbResponse' = result
  /\ fbPc' = Outcome(result).pc
  /\ fbResult' = Outcome(result).records
  /\ fbError' = Outcome(result).message
  /\ UNCHANGED <<fbArgs, fbRequests>>
  /\ UNCHANGED nonFetchVars

\* fetch rejects (no connection): the catch block rethrows the error.
FbNetworkError ==
  /\ fbPc = "awaiting"
  /\ fbInFlight' = fbInFlight - 1
  /\ fbPc' = "thrown"
  /\ fbError' = "Failed to fetch"
  /\ UNCHANGED <<fbArgs, fbRequests, fbResponse, fbResult>>
  /\ UNCHANGED nonFetchVars

FetchInit == MergeIdle /\ FetchIdle /\ AppIdle /\ ParseIdle /\ ViewIdle /\ StoreIdle

FetchNext ==
  \/ \E args \in FetchArgs : FbCall(args)
  \/ \E result \in ApiResponses : FbReceive(result)
  \/ FbNetworkError

FetchSpec == FetchInit /\ [][FetchNext]_vars

\* ------------------------------------------------------------ properties of the fetch
RECURSIVE ExpectedChunks(_, _)
ExpectedChunks(since, until) ==
  IF since > until THEN <<>>
  ELSE LET last == IF since + 29 < until THEN since + 29 ELSE until
       IN  <<[kind |-> "time_range", since |-> <<since>>, until |-> <<last>>]>>
             \o ExpectedChunks(last + 1, until)

RangeGiven == fbArgs.startDate # Undef /\ fbArgs.endDate # Undef

\* C8 as stated: a call that was given a date range and has returned has issued
\* one request per chunk of at most 30 days, in date order, the last chunk
\* ending at the requested end date (65 days: 3 requests of 30, 30 and 5 days).
C8_ChunkedRequests ==
  (fbPc = "returned" /\ RangeGiven) =>
    fbRequests = ExpectedChunks(fbArgs.startDate[1], fbArgs.endDate[1])

\* C9 as stated: at most one request is in flight, and a call that has returned
\* has followed every cursor: the last response it received carries none.
C9_PaginationDrained ==
  /\ fbInFlight <= 1
  /\ fbPc = "returned" => (fbResponse.kind = "page" /\ ~fbResponse.next)

\* C10: when a response is an API error object the call has thrown an error
\* whose message is the upstream message, and it has returned no records.
C10_ErrorAbortsFetch ==
  fbResponse.kind = "error" =>
    /\ fbPc = "thrown"
    /\ fbError = fbResponse.message
    /\ fbResult = <<>>

C10_Witness ==
  /\ fbResponse.kind = "error"
  /\ fbPc = "thrown"
  /\ fbError = "(#17) User request limit reached"
  /\ fbArgs.endDate = <<65>>

\* ------------------------------------------------------------ the App component
\* The handlers of src/App.tsx.  An async handler runs from one await to the
\* next without interruption; between two awaits of one handler the steps of
\* the others may come.  Each step below is a function from the component's
\* state (and what the awaited call delivered) to its next state.
MaxCalls == 2       \* handlers the user starts (upload, sync, save buttons)

App ==
  [variant |-> variant, scriptUrl |-> scriptUrl, fbToken |-> fbToken,
   rawData |-> rawData, notification |-> notification,
   isLoadingData |-> isLoadingData, isSavingToSheet |-> isSavingToSheet,
   isFetchingFbData |-> isFetchingFbData,
   load |-> load, upload |-> upload, sync |-> sync, save |-> save,
   storeGets |-> storeGets, storePosts |-> storePosts, fbCalls |-> fbCalls, calls |-> calls]

Becomes(st) ==
  /\ variant' = st.variant /\ scriptUrl' = st.scriptUrl /\ fbToken' = st.fbToken
  /\ rawData' = st.rawData /\ notification' = st.notification
  /\ isLoadingData' = st.isLoadingData /\ isSavingToSheet' = st.isSavingToSheet
  /\ isFetchingFbData' = st.isFetchingFbData
  /\ load' = st.load /\ upload' = st.upload /\ sync' = st.sync /\ save' = st.save
  /\ storeGets' = st.storeGets /\ storePosts' = st.storePosts /\ fbCalls' = st.fbCalls
  /\ calls' = st.calls
  /\ UNCHANGED nonAppVars

\* --- what the awaited calls deliver
PlaceholderUrls == {"https://your-web-app-url", "https://script.google.com/macros/s/.../exec"}
ScriptUrls == PlaceholderUrls \cup {DeployedUrl}

\* GOOGLE_APPS_SCRIPT_URL.includes(text), for the URLs above
UrlIncludes(url, text) ==
  \/ url = "https://your-web-app-url" /\ text = "your-web-app-url"
  \/ url = "https://script.google.com/macros/s/.../exec" /\ text = "script.google.com/macros/s/..."

\* The header row executeSaveToSheet writes (its first seven names) and one
\* stored row under it.
StoredHeader ==
  << StrCell(<<"D", "a", "t", "e">>),
     StrCell(<<"C", "a", "m", "p", "a", "i", "g", "n", " ", "N", "a", "m", "e">>),
     StrCell(<<"S", "p", "e", "n", "t">>), StrCell(<<"C", "P", "C">>),
     StrCell(<<"R", "O", "A", "S">>), StrCell(<<"C", "V", "R">>), StrCell(<<"C", "P", "A">>) >>
StoredRow ==
  << StrCell(<<"1", "9", "7", "0", "-", "0", "1", "-", "0", "2">>), StrCell(<<"A">>),
     NumCell(StoredCells.spent), NumCell(StoredCells.cpc), NumCell(StoredCells.roas),
     NumCell(StoredCells.cvr), NumCell(StoredCells.cpa) >>

\* fetch(GOOGLE_APPS_SCRIPT_URL) and response.json(): the fetch rejects, the
\* response is not ok, or a body arrives: rows, a sheet with its header only,
\* or the error object of doGet.
SheetResponses ==
  { [kind |-> "reject", message |-> "Failed to fetch", status |-> "", data |-> Undef],
    [kind |-> "http", message |-> "HTTP error! status: 500", status |-> "", data |-> Undef],
    [kind |-> "json", message |-> "", status |-> "success", data |-> <<StoredHeader, StoredRow>>],
    [kind |-> "json", message |-> "", status |-> "success", data |-> <<StoredHeader>>],
    [kind |-> "json", message |-> "Exception: Lock timeout", status |-> "error", data |-> Undef] }

\* fetchFacebookInsights: what the call makes of a response (Outcome), or the
\* rethrown rejection of its fetch.
SyncOutcomes ==
  { Outcome([kind |-> "error", message |-> "Invalid OAuth 2.0 Access Token"]),
    Outcome([kind |-> "page", data |-> << <<EntryOf(1, <<"A", " ">>, FullMetrics)>> >>, next |-> FALSE]),
    [pc |-> "thrown", records |-> <<>>, message |-> "Failed to fetch"] }

\* The POST of executeSaveToSheet and result = response.json().
SaveResponses ==
  { [ok |-> TRUE, message |-> ""],
    [ok |-> FALSE, message |-> "Error: No data provided"],
    [ok |-> FALSE, message |-> "Failed to fetch"] }

\* The file handed to readExcelFile: one XLSX.read cannot decode, a workbook
\* without rows, a workbook with one row.
UploadedFiles ==
  { [corrupt |-> TRUE, rows |-> <<>>],
    [corrupt |-> FALSE, rows |-> <<>>],
    [corrupt |-> FALSE, rows |-> <<RowOf(2, <<"a">>, UploadedCells)>>] }

\* Faulty variant: a workbook that cannot be decoded resolves with no rows.
readExcelFile_resolves(file) ==
  [rejected |-> FALSE, data |-> [i \in 1..Len(file.rows) |-> ExcelRecord(file.rows[i])]]

\* readExcelFile: rejects when XLSX.read throws, resolves with the mapped rows.
readExcelFile(file) ==
  IF file.corrupt THEN [rejected |-> TRUE, data |-> <<>>]
  ELSE [rejected |-> FALSE, data |-> [i \in 1..Len(file.rows) |-> ExcelRecord(file.rows[i])]]

\* --- fetchDataFromSheet
\* The message its catch block shows for an error message.
LoadMessage(v, message) ==
  IF v = 1
  THEN (IF message = "Failed to fetch"
        THEN "Connection failed. Ensure Apps Script is deployed as \"Anyone\"."
        ELSE IF message = "Invalid Script URL"
        THEN "Configuration Error: Please update GOOGLE_APPS_SCRIPT_URL in constants.ts"
        ELSE "Failed to load data. Please import Excel file.")
  ELSE (IF message = "Failed to fetch"
        THEN "Connection failed. Ensure Apps Script is deployed properly."
        ELSE "Failed to load data.")

\* catch and finally
LoadThrows(st, message) ==
  [st EXCEPT !.notification = Note(<<LoadMessage(st.variant, message)>>, "error"),
             !.isLoadingData = FALSE,
             !.load = [pc |-> "done", parsed |-> <<>>, failure |-> "load"]]

\* The test for a placeholder URL: two texts in the first component, one in the second.
DetectsPlaceholder(v, url) ==
  \/ UrlIncludes(url, "your-web-app-url")
  \/ v = 1 /\ UrlIncludes(url, "script.google.com/macros/s/...")

\* Up to the first await: the placeholder test, then the GET.
fetchDataFromSheet_start(st) ==
  IF DetectsPlaceholder(st.variant, st.scriptUrl) THEN LoadThrows(st, "Invalid Script URL")
  ELSE [st EXCEPT !.isLoadingData = TRUE, !.storeGets = @ + 1, !.load.pc = "awaitSheet"]

\* The else branch of the test on json: the first component reports and
\* leaves rawData alone; the second reports and goes on to setRawData([]).
NoSheetData(st, resp) ==
  [st EXCEPT !.notification =
               Note(<<IF st.variant = 1
                      THEN "No data found (or Sheet is empty). Please import Excel file."
                      ELSE "No sheet data found.">>, "error"),
             !.rawData = IF st.variant = 1 THEN @ ELSE <<>>,
             !.isLoadingData = FALSE,
             !.load = [pc |-> "done", parsed |-> <<>>,
                       failure |-> IF resp.status = "success" THEN "none" ELSE "load"]]

\* The success branch, p being what parseSheetData made of json.data.
SheetDataParsed(st, p) ==
  IF p.threw THEN LoadThrows(st, "value.replace is not a function")
  ELSE IF st.variant = 1 /\ Len(p.data) > 0 /\ st.fbToken
  THEN [st EXCEPT !.fbCalls = @ + 1,
                  !.load = [pc |-> "awaitFb", parsed |-> p.data, failure |-> "none"]]
  ELSE [st EXCEPT !.rawData = p.data, !.isLoadingData = FALSE,
                  !.load = [pc |-> "done", parsed |-> p.data, failure |-> "none"]]

\* From the response of the GET to the next await or the end.
fetchDataFromSheet_response(st, resp) ==
  IF resp.kind # "json" THEN LoadThrows(st, resp.message)
  ELSE IF /\ resp.status = "success" /\ resp.data # Undef
          /\ (st.variant = 1 \/ Len(resp.data) > 1)
  THEN SheetDataParsed(st, parseSheetData(resp.data))
  ELSE NoSheetData(st, resp)

\* handleFacebookConnect(token, currentData, false, ...) after its fetch: the
\* merged data, or currentData and a notification when the fetch threw.
ConnectResult(currentData, out) ==
  IF out.pc = "returned" THEN mergeFacebookData(currentData, out.records) ELSE currentData

ConnectNote(note, out) ==
  IF out.pc = "thrown" THEN Note(<<"Facebook Sync Failed: ", out.message>>, "error") ELSE note

\* The first component's load after its sync: setRawData(initialData).
fetchDataFromSheet_synced(st, out) ==
  [st EXCEPT !.rawData = ConnectResult(st.load.parsed, out),
             !.notification = ConnectNote(@, out),
             !.isLoadingData = FALSE,
             !.load = [pc |-> "done", parsed |-> st.load.parsed,
                       failure |-> IF out.pc = "thrown" THEN "sync" ELSE "none"]]

\* --- executeSaveToSheet
\* The first component returns before the POST when there is nothing to save.
Posts(v, data) == ~(v = 1 /\ Len(data) = 0)

executeSaveToSheet_start(st, data) ==
  IF Posts(st.variant, data)
  THEN [st EXCEPT !.isSavingToSheet = TRUE, !.storePosts = @ + 1]
  ELSE [st EXCEPT !.notification = Note(<<"No data to save.">>, "error"),
                  !.isSavingToSheet = FALSE]

\* The notification after the response of the POST: none for a save with
\* dataOverride that succeeded; for a failure, the catch block's.
SaveNote(v, note, resp, override) ==
  IF resp.ok
  THEN (IF override THEN note
        ELSE Note(<<IF v = 1 THEN "Data saved to Google Sheet!" ELSE "Saved to Google Sheet.">>, "success"))
  ELSE IF v = 1 THEN Note(<<"Request sent. Check Sheet for updates.">>, "success")
  ELSE Note(<<"Save failed: ", resp.message>>, "error")

\* Faulty variant: the flag is cleared at the end of the try block (no finally).
executeSaveToSheet_response_busy(st, resp, override) ==
  [st EXCEPT !.notification = SaveNote(st.variant, @, resp, override),
             !.isSavingToSheet = IF resp.ok THEN FALSE ELSE @]

executeSaveToSheet_response(st, resp, override) ==
  [st EXCEPT !.notification = SaveNote(st.variant, @, resp, override),
             !.isSavingToSheet = FALSE]

\* --- handleUpload
\* The click: the handler closes over the rawData of the render it was made in.
handleUpload_start(st, file) ==
  [st EXCEPT !.calls = @ + 1,
             !.upload = [UploadIdle EXCEPT !.pc = "reading", !.file = file, !.raw = st.rawData]]

\* The save of an upload begins: the POST, or, when the first component has
\* nothing to save, its return and the handler's closing notification.
UploadSaves(st, data, pc) ==
  LET s == executeSaveToSheet_start(st, data)
  IN  IF Posts(st.variant, data) THEN [s EXCEPT !.upload.pc = pc]
      ELSE [s EXCEPT !.notification =
                       Note(<<"Successfully imported ${newData.length} rows and saved to Sheet.">>, "success"),
                     !.upload.pc = "idle"]

\* After await readExcelFile(file): the outer catch when it rejected; else the
\* merge, then the sync (first component, token set) or setRawData and the save.
handleUpload_read(st) ==
  LET r == readExcelFile(st.upload.file)
      merged == mergeCampaignData(st.upload.raw, r.data)
      u == [st.upload EXCEPT !.newData = r.data, !.merged = merged]
  IN  IF r.rejected
      THEN [st EXCEPT !.notification =
                        Note(<<IF st.variant = 1
                               THEN "Error parsing file. Ensure it is a valid Excel file."
                               ELSE "Error parsing file.">>, "error"),
                      !.upload = [@ EXCEPT !.pc = "idle", !.failure = "read"]]
      ELSE IF st.variant = 1 /\ st.fbToken /\ Len(merged) > 0
      THEN [st EXCEPT !.fbCalls = @ + 1, !.upload = [u EXCEPT !.pc = "awaitFb"]]
      ELSE UploadSaves([st EXCEPT !.rawData = merged, !.upload = u], merged, "saving")

\* After the sync.  First component: handleFacebookConnect returned, then
\* setRawData(merged) and the save.  Second component: setRawData(fullyMerged)
\* and a second save, or the inner catch.
handleUpload_synced(st, out) ==
  LET merged == ConnectResult(st.upload.merged, out)
      failure == IF out.pc = "thrown" THEN "sync" ELSE st.upload.failure
  IN  IF st.variant = 1
      THEN UploadSaves([st EXCEPT !.rawData = merged,
                                  !.notification = ConnectNote(@, out),
                                  !.upload = [@ EXCEPT !.merged = merged, !.failure = failure]],
                       merged, "saving")
      ELSE IF out.pc = "returned"
      THEN UploadSaves([st EXCEPT !.rawData = merged, !.upload.merged = merged], merged, "saving2")
      ELSE [st EXCEPT !.upload = [@ EXCEPT !.pc = "idle", !.failure = failure]]

\* After a save of the upload answered.
handleUpload_saved(st, resp) ==
  LET s == executeSaveToSheet_response(st, resp, TRUE)
      u == [st.upload EXCEPT !.lastSave = IF resp.ok THEN "ok" ELSE "failed",
                             !.saveFailed = @ \/ ~resp.ok]
  IN  IF st.variant = 1
      THEN [s EXCEPT !.notification =
                       Note(<<"Successfully imported ${newData.length} rows and saved to Sheet.">>, "success"),
                     !.upload = [u EXCEPT !.pc = "idle"]]
      ELSE IF st.upload.pc = "saving2"
      THEN [s EXCEPT !.notification = Note(<<"Imported and synced with Facebook.">>, "success"),
                     !.upload = [u EXCEPT !.pc = "idle"]]
      ELSE [s EXCEPT !.notification =
                       Note(<<"Imported ${newData.length} rows and saved to Sheet.">>, "success"),
                     !.fbCalls = IF st.fbToken THEN @ + 1 ELSE @,
                     !.upload = [u EXCEPT !.pc = IF st.fbToken THEN "awaitFb" ELSE "idle"]]

\* --- the sync button: handleFacebookConnect(t) in the first component (shown
\* when no token is configured), handleManualFbLoad in the second (which
\* returns at once without a token).
SyncButton(v, token) == IF v = 1 THEN ~token ELSE token

handleSync_start(st) ==
  [st EXCEPT !.calls = @ + 1, !.fbCalls = @ + 1,
             !.isFetchingFbData = IF st.variant = 2 THEN TRUE ELSE @,
             !.sync = [SyncIdle EXCEPT !.pc = "awaitFb", !.raw = st.rawData]]

handleSync_fetched(st, out) ==
  LET merged == mergeFacebookData(st.sync.raw, out.records)
  IN  IF out.pc = "thrown"
      THEN [st EXCEPT !.notification =
                        Note(<<IF st.variant = 1 THEN "Facebook Sync Failed: " ELSE "Sync Failed: ",
                               out.message>>, "error"),
                      !.isFetchingFbData = FALSE,
                      !.sync = [@ EXCEPT !.pc = "idle", !.failure = "sync"]]
      ELSE IF st.variant = 1
      THEN [st EXCEPT !.rawData = merged,
                      !.notification =
                        Note(<<"Synced ${fbData.length} records from Facebook Insights.">>, "success"),
                      !.sync = [@ EXCEPT !.pc = "idle", !.merged = merged]]
      ELSE [executeSaveToSheet_start([st EXCEPT !.rawData = merged], merged)
              EXCEPT !.sync = [@ EXCEPT !.pc = "saving", !.merged = merged]]

\* handleManualFbLoad after its save answered.
handleSync_saved(st, resp) ==
  [executeSaveToSheet_response(st, resp, TRUE)
     EXCEPT !.notification = Note(<<"Synced ${fbData.length} records.">>, "success"),
            !.isFetchingFbData = FALSE,
            !.sync = [@ EXCEPT !.pc = "idle", !.saveFailed = ~resp.ok]]

\* --- the save button: executeSaveToSheet()
handleSave_start(st) ==
  [executeSaveToSheet_start(st, st.rawData)
     EXCEPT !.calls = @ + 1,
            !.save = [pc |-> IF Posts(st.variant, st.rawData) THEN "awaiting" ELSE "idle",
                      failed |-> FALSE]]

handleSave_response(st, resp) ==
  [executeSaveToSheet_response(st, resp, FALSE)
     EXCEPT !.save = [pc |-> "idle", failed |-> ~resp.ok]]

\* --- the component as a state machine
AppInit ==
  /\ variant \in {1, 2} /\ scriptUrl \in ScriptUrls /\ fbToken \in BOOLEAN
  /\ rawData = <<>> /\ notification = NoNote
  /\ isLoadingData = FALSE /\ isSavingToSheet = FALSE /\ isFetchingFbData = FALSE
  /\ load = LoadIdle /\ upload = UploadIdle /\ sync = SyncIdle /\ save = SaveIdle
  /\ storeGets = 0 /\ storePosts = 0 /\ fbCalls = 0 /\ calls = 0
  /\ MergeIdle /\ FetchIdle /\ ParseIdle /\ ViewIdle /\ StoreIdle

\* useEffect on isAuthenticated: the load runs once, before any button is used.
LoadStart == load.pc = "idle" /\ Becomes(fetchDataFromSheet_start(App))
LoadResponse(resp) == load.pc = "awaitSheet" /\ Becomes(fetchDataFromSheet_response(App, resp))
LoadSynced(out) == load.pc = "awaitFb" /\ Becomes(fetchDataFromSheet_synced(App, out))

\* The header's buttons are rendered while the load is still awaited.
UploadStart(file) ==
  /\ load.pc # "idle" /\ upload.pc = "idle" /\ calls < MaxCalls
  /\ Becomes(handleUpload_start(App, file))
UploadRead == upload.pc = "reading" /\ Becomes(handleUpload_read(App))
UploadSynced(out) == upload.pc = "awaitFb" /\ Becomes(handleUpload_synced(App, out))
UploadSaved(resp) == upload.pc \in {"saving", "saving2"} /\ Becomes(handleUpload_saved(App, resp))

SyncStart ==
  /\ load.pc # "idle" /\ sync.pc = "idle" /\ calls < MaxCalls
  /\ SyncButton(variant, fbToken)
  /\ Becomes(handleSync_start(App))
SyncFetched(out) == sync.pc = "awaitFb" /\ Becomes(handleSync_fetched(App, out))
SyncSaved(resp) == sync.pc = "saving" /\ Becomes(handleSync_saved(App, resp))

SaveStart ==
  /\ load.pc # "idle" /\ save.pc = "idle" /\ calls < MaxCalls
  /\ Becomes(handleSave_start(App))
SaveResponse(resp) == save.pc = "awaiting" /\ Becomes(handleSave_response(App, resp))

AppNext ==
  \/ LoadStart
  \/ \E resp \in SheetResponses : LoadResponse(resp)
  \/ \E out \in SyncOutcomes : LoadSynced(out)
  \/ \E file \in UploadedFiles : UploadStart(file)
  \/ UploadRead
  \/ \E out \in SyncOutcomes : UploadSynced(out)
  \/ \E resp \in SaveResponses : UploadSaved(resp)
  \/ SyncStart
  \/ \E out \in SyncOutcomes : SyncFetched(out)
  \/ \E resp \in SaveResponses : SyncSaved(resp)
  \/ SaveStart
  \/ \E resp \in SaveResponses : SaveResponse(resp)

AppSpec == AppInit /\ [][AppNext]_vars

\* ------------------------------------------------------------ properties of the handlers
\* The step in which a handler meets a failure of the call it awaited.
LoadFailsNow == load.pc = "awaitSheet" /\ load'.failure = "load"
LoadSyncFailsNow == load.pc = "awaitFb" /\ load'.failure = "sync"
UploadSyncFailsNow == upload.pc = "awaitFb" /\ upload'.failure = "sync"
SyncFailsNow == sync.pc = "awaitFb" /\ sync'.failure = "sync"
UploadSaveFailsNow ==
  upload.pc \in {"saving", "saving2"} /\ upload'.pc # upload.pc /\ upload'.lastSave = "failed"
SyncSaveFailsNow == sync.pc = "saving" /\ sync'.saveFailed
SaveFailsNow == save.pc = "awaiting" /\ save'.failed

\* C11: a step in which the store load, the sync, a save or the sync step of
\* a load or an upload fails leaves rawData as it was; the failed sync step
\* of a load or an upload may also leave the data loaded or merged before it.
C11_FailureKeepsWorkingSet ==
  [][ /\ (LoadFailsNow \/ SyncFailsNow \/ SaveFailsNow \/ UploadSaveFailsNow \/ SyncSaveFailsNow)
           => rawData' = rawData
      /\ LoadSyncFailsNow => rawData' \in {rawData, load.parsed}
      /\ UploadSyncFailsNow => rawData' \in {rawData, upload.merged} ]_vars

UploadEndsNow == upload.pc # "idle" /\ upload'.pc = "idle"

\* C12: when the POST of a save started from the save button or from an
\* upload throws or is answered with a status that is not success, the
\* notification at the end of the operation has type error, and the step that
\* meets the failure sends no further POST.
C12_SaveFailureIsReported ==
  [][ /\ SaveFailsNow => notification'.type = "error" /\ storePosts' = storePosts
      /\ UploadSaveFailsNow => storePosts' = storePosts
      /\ (UploadEndsNow /\ upload'.saveFailed) => notification'.type = "error" ]_vars

\* C13: with a placeholder URL the first step of fetchDataFromSheet sends no
\* request and leaves an error notification whose message is neither the one
\* of a generic load failure nor the one of a connection failure.
C13_PlaceholderReportedDistinctly ==
  [][ (load.pc = "idle" /\ load'.pc # "idle" /\ scriptUrl \in PlaceholderUrls)
        => /\ storeGets' = storeGets
           /\ load'.pc = "done"
           /\ notification'.type = "error"
           /\ notification'.message # <<LoadMessage(variant, "HTTP error! status: 500")>>
           /\ notification'.message # <<LoadMessage(variant, "Failed to fetch")>> ]_vars

\* C14: when the workbook of an upload cannot be decoded, readExcelFile
\* rejects and yields no records, and the step of handleUpload that follows
\* leaves rawData as it was, sends no POST to the store, starts no sync and
\* ends the upload with an error notification.
C14_DecodeFailureAbortsUpload ==
  [][ (upload.pc = "reading" /\ upload.file.corrupt /\ upload'.pc # "reading")
        => /\ readExcelFile(upload.file).rejected
           /\ readExcelFile(upload.file).data = <<>>
           /\ rawData' = rawData
           /\ storePosts' = storePosts
           /\ fbCalls' = fbCalls
           /\ upload'.pc = "idle"
           /\ notification'.type = "error" ]_vars

C14_Witness ==
  /\ upload.pc = "idle" /\ upload.file.corrupt /\ upload.failure = "read"
  /\ rawData # <<>> /\ rawData = upload.raw
  /\ notification.type = "error"
  /\ storePosts = 0 /\ fbCalls = 0

\* ------------------------------------------------------------ parseSheetData, applied
\* Cells a stored sheet can hold in its date, campaign and numeric columns.
DateCells ==
  { StrCell(<<"1", "9", "7", "0", "-", "0", "1", "-", "0", "2">>), NumCell(Num(25571)),
    StrCell(<<"n", "/", "a">>), StrCell(<<>>), NoCell }
CampaignCells == { StrCell(<<"A">>), StrCell(<<"A", " ">>), StrCell(<<" ">>), StrCell(<<>>), NoCell }
NumericCells ==
  { NumCell(Num(100)), StrCell(<<"1", ",", "0", "0", "0">>), StrCell(<<" ", "2", ".", "5">>),
    StrCell(<<"-">>), StrCell(<<>>), StrCell(<<"n", "/", "a">>),
    BoolCell(TRUE), BoolCell(FALSE), NoCell }

GoodDate == StrCell(<<"1", "9", "7", "0", "-", "0", "1", "-", "0", "2">>)

\* A data row under StoredHeader; cell is its Spent cell.
GridRow(dateCell, campaignCell, cell) ==
  << dateCell, campaignCell, cell, NumCell(Num(2)), NumCell(Rat(1, 2)),
     StrCell(<<"5", "%">>), NumCell(Num(50)) >>

\* Rows that differ from a well-formed row in one cell, and the empty row.
GridRows ==
  {GridRow(d, StrCell(<<"A">>), NumCell(Num(100))) : d \in DateCells}
    \cup {GridRow(GoodDate, c, NumCell(Num(100))) : c \in CampaignCells}
    \cup {GridRow(GoodDate, StrCell(<<"A">>), x) : x \in NumericCells}
    \cup {<<>>}

\* StoredHeader with its Spent name replaced and an eighth column added.
HeaderWith(third, eighth) ==
  [StoredHeader EXCEPT ![3] = StrCell(third)] \o <<StrCell(eighth)>>

\* Header rows whose names for spent differ in case or hold more text: an
\* upper-case name before the exact one, a longer name before an upper-case
\* one, a longer name alone, and no name for spent at all.
VariantHeaders ==
  { HeaderWith(<<"S", "P", "E", "N", "T">>, <<"S", "p", "e", "n", "t">>),
    HeaderWith(<<"A", "d", " ", "s", "p", "e", "n", "t">>, <<"S", "P", "E", "N", "T">>),
    HeaderWith(<<"A", "d", " ", "s", "p", "e", "n", "t">>, <<"N", "o", "t", "e">>),
    HeaderWith(<<"C", "o", "s", "t">>, <<"N", "o", "t", "e">>) }

\* A well-formed row of eight cells, 100 in the third and 7 in the eighth.
WideRow == GridRow(GoodDate, StrCell(<<"A">>), NumCell(Num(100))) \o <<NumCell(Num(7))>>

Grids ==
  {<<StoredHeader>> \o rows : rows \in SeqUpTo(GridRows, MaxRows)}
    \cup {<<h, WideRow>> : h \in VariantHeaders}

ParseInit ==
  /\ pValues \in Grids
  /\ pPc = "ready"
  /\ pOut = [threw |-> FALSE, data |-> <<>>]
  /\ MergeIdle /\ FetchIdle /\ AppIdle /\ ViewIdle /\ StoreIdle

\* fetchDataFromSheet: const parsed = parseSheetData(json.data)
ParseSheet ==
  /\ pPc = "ready"
  /\ pOut' = parseSheetData(pValues)
  /\ pPc' = "done"
  /\ UNCHANGED pValues
  /\ UNCHANGED nonParseVars

ParseNext == ParseSheet

ParseSpec == ParseInit /\ [][ParseNext]_vars

\* ------------------------------------------------------------ properties of parseSheetData
Parsed == pPc = "done"
DataRows == Tail(pValues)

\* A cell that is missing or holds the empty string.
CellEmpty(cell) == cell.t = "undefined" \/ (cell.t = "string" /\ cell.s = <<>>)

\* The date and the campaign name of a row resolve to non-empty values.
DateResolves(cell) == ~CellEmpty(cell) /\ normalizeDate(cell).ok
NameResolves(cell) == ~CellEmpty(cell) /\ Trim(StringOf(cell)) # <<>>
RowResolves(row) == row # <<>> /\ DateResolves(row[1]) /\ NameResolves(row[2])
ResolvedRows == SelectSeq(DataRows, RowResolves)

\* A numeric cell that does not hold a number: "-", "", text, a boolean, nothing.
BadNumeric(cell) ==
  \/ cell.t \in {"undefined", "boolean"}
  \/ cell.t = "string" /\ ParseFloat(Trim(RemoveAll(cell.s, ","))).nan

\* C15: for every grid of such cells parseSheetData returns without throwing,
\* each record it returns has spent 0 where the row's Spent cell is bad, and
\* it returns no more records than there are rows with a usable date and
\* campaign name.
C15_ParseNeverThrows ==
  Parsed =>
    /\ ~pOut.threw
    /\ Len(pOut.data) <= Len(ResolvedRows)
    /\ LET kept == SelectSeq(DataRows, LAMBDA row : ~Skipped(row, Columns([i \in 1..Len(pValues[1]) |-> pValues[1][i].s])))
       IN  \A i \in 1..Len(pOut.data) : BadNumeric(kept[i][3]) => pOut.data[i].spent = Num(0)

\* C16: parseSheetData returns exactly one record for each data row whose
\* date and campaign name resolve to non-empty values, in the rows' order,
\* and none for any other row; it never returns more records than data rows.
C16_RecordIffDateAndName ==
  Parsed =>
    /\ Len(pOut.data) = Len(ResolvedRows)
    /\ Len(pOut.data) <= Len(DataRows)
    /\ \A i \in 1..Len(pOut.data) :
         /\ pOut.data[i].date = normalizeDate(ResolvedRows[i][1]).day
         /\ pOut.data[i].campaignName = Trim(StringOf(ResolvedRows[i][2]))

\* ------------------------------------------------------------ properties of the working set
\* The counts of a record are the ones its spent and its ratios give.
CountsFollowRatios(r) ==
  /\ r.clicks = IF r.cpc[1] > 0 THEN RDiv(r.spent, r.cpc) ELSE Num(0)
  /\ r.conversions = IF r.cpa[1] > 0 THEN RDiv(r.spent, r.cpa) ELSE Num(0)
  /\ r.revenue = RMul(r.spent, r.roas)

AllFollow(data) == \A i \in 1..Len(data) : CountsFollowRatios(data[i])

\* C17: every record the row mappers produced and every record of the working
\* set, after whatever loads, import merges and enrichment merges the handlers
\* ran, has clicks = spent / cpc (0 unless cpc > 0), conversions = spent / cpa
\* (0 unless cpa > 0) and revenue = spent * roas.
C17_CountsFollowRatios ==
  /\ AllFollow(rawData)
  /\ AllFollow(load.parsed) /\ AllFollow(upload.newData)
  /\ AllFollow(upload.merged) /\ AllFollow(sync.merged)

C17_Witness ==
  /\ Len(rawData) = 2
  /\ \E i, j \in 1..2 :
       /\ rawData[i].impressions = Num(1000) /\ rawData[i].cpc = Num(2)
       /\ rawData[i].clicks = Num(50) /\ rawData[i].linkClicks = Num(10)
       /\ rawData[j].spent = Num(300) /\ rawData[j].cpc = Num(0) /\ rawData[j].clicks = Num(0)
       /\ rawData[j].revenue = Num(300)

\* ------------------------------------------------------------ aggregatedTableData
MaxViewRows == 3    \* records in filteredData

RAdd(a, b) == Rat(a[1] * b[2] + b[1] * a[2], a[2] * b[2])

\* x || 0 for an optional number
OrNum(x) == IF x = Undef THEN Num(0) ELSE x

\* The entry a campaign gets when it is first met: the item with its date
\* replaced and its sums at 0.
NewEntry(item) ==
  [item EXCEPT !.date = <<"R", "a", "n", "g", "e">>,
               !.spent = Num(0), !.revenue = Num(0), !.clicks = Num(0),
               !.conversions = Num(0), !.reach = Num(0), !.impressions = Num(0),
               !.linkClicks = Num(0)]

\* agg.spent += item.spent, and so on
AddItem(agg, item) ==
  [agg EXCEPT !.spent = RAdd(@, item.spent), !.revenue = RAdd(@, item.revenue),
              !.clicks = RAdd(@, item.clicks), !.conversions = RAdd(@, item.conversions),
              !.reach = RAdd(OrNum(@), OrNum(item.reach)),
              !.impressions = RAdd(OrNum(@), OrNum(item.impressions)),
              !.linkClicks = RAdd(OrNum(@), OrNum(item.linkClicks))]

\* The body of filteredData.forEach
Accumulate(m, item) ==
  LET key == item.campaignName
      i == MapIndex(m, key)
      agg == IF i = 0 THEN NewEntry(item) ELSE m[i].value
  IN  MapSet(m, key, AddItem(agg, item))

RECURSIVE ForEachFiltered(_, _, _)
ForEachFiltered(data, i, m) ==
  IF i > Len(data) THEN m ELSE ForEachFiltered(data, i + 1, Accumulate(m, data[i]))

\* Faulty variant: the entry keeps the roas of the record it was made from.
TotalRoas_kept(item) == item.roas

\* roas of the totals
TotalRoas(item) == IF Positive(item.spent) THEN RDiv(item.revenue, item.spent) ELSE Num(0)

\* The ratios recomputed from the totals of an entry.
Recalculate(item) ==
  LET impressions == OrNum(item.impressions)
      reach == OrNum(item.reach)
  IN  [item EXCEPT
         !.cpc = IF Positive(item.clicks) THEN RDiv(item.spent, item.clicks) ELSE Num(0),
         !.roas = TotalRoas(item),
         !.cvr = IF Positive(item.clicks) THEN RDiv(item.conversions, item.clicks) ELSE Num(0),
         !.cpa = IF Positive(item.conversions) THEN RDiv(item.spent, item.conversions) ELSE Num(0),
         !.cpm = IF Positive(impressions)
                 THEN RDiv(item.spent, RDiv(impressions, Num(1000))) ELSE Num(0),
         !.ctr = IF Positive(impressions)
                 THEN RDiv(IF Truthy(item.linkClicks) THEN item.linkClicks ELSE item.clicks,
                           impressions)
                 ELSE Num(0),
         !.frequency = IF Positive(reach) THEN RDiv(impressions, reach) ELSE Num(0)]

aggregatedList(data) ==
  LET values == MapValues(ForEachFiltered(data, 1, <<>>))
  IN  [i \in 1..Len(values) |-> Recalculate(values[i])]

\* --- the sort of the table
Sign(n) == IF n < 0 THEN 0 - 1 ELSE IF n > 0 THEN 1 ELSE 0

\* aVal - bVal
NumCompare(a, b) == Sign(a[1] * b[2] - b[1] * a[2])

\* The collation of localeCompare on letters and blanks: first by letter, a
\* blank before every letter and a prefix before its extensions; between two
\* strings of the same letters the first difference decides, lower case first.
LetterRank(c) ==
  IF IsSpace(c) THEN 0
  ELSE LET l == LowerChar(c) IN CHOOSE i \in DOMAIN LowerLetters : LowerLetters[i] = l

RECURSIVE ByLetters(_, _)
ByLetters(a, b) ==
  IF a = <<>> /\ b = <<>> THEN 0
  ELSE IF a = <<>> THEN 0 - 1
  ELSE IF b = <<>> THEN 1
  ELSE IF LetterRank(Head(a)) # LetterRank(Head(b))
  THEN Sign(LetterRank(Head(a)) - LetterRank(Head(b)))
  ELSE ByLetters(Tail(a), Tail(b))

RECURSIVE ByCase(_, _)
ByCase(a, b) ==
  IF a = <<>> THEN 0
  ELSE IF Head(a) = Head(b) THEN ByCase(Tail(a), Tail(b))
  ELSE IF IsLower(Head(a)) THEN 0 - 1 ELSE 1

localeCompare(a, b) == IF ByLetters(a, b) # 0 THEN ByLetters(a, b) ELSE ByCase(a, b)

StringFields == {"date", "campaignName"}

\* typeof a[sortField]
TypeOfField(row, field) ==
  IF field \notin DOMAIN row THEN "undefined"
  ELSE IF field \in StringFields THEN "string"
  ELSE IF row[field] = Undef THEN "undefined"
  ELSE "number"

\* Faulty variant: the comparator ignores sortOrder.
compare_ascending(a, b, field, order) ==
  IF TypeOfField(a, field) = "string" /\ TypeOfField(b, field) = "string"
  THEN localeCompare(a[field], b[field])
  ELSE IF TypeOfField(a, field) = "number" /\ TypeOfField(b, field) = "number"
  THEN NumCompare(a[field], b[field])
  ELSE 0

\* The comparator handed to sort.
compare(a, b, field, order) ==
  IF TypeOfField(a, field) = "string" /\ TypeOfField(b, field) = "string"
  THEN (IF order = "asc" THEN localeCompare(a[field], b[field])
        ELSE localeCompare(b[field], a[field]))
  ELSE IF TypeOfField(a, field) = "number" /\ TypeOfField(b, field) = "number"
  THEN (IF order = "asc" THEN NumCompare(a[field], b[field])
        ELSE NumCompare(b[field], a[field]))
  ELSE 0

\* Array.prototype.sort: stable.
RECURSIVE InsertBy(_, _, _, _)
InsertBy(sorted, x, field, order) ==
  IF sorted = <<>> THEN <<x>>
  ELSE LET last == sorted[Len(sorted)]
       IN  IF compare(last, x, field, order) <= 0 THEN Append(sorted, x)
           ELSE Append(InsertBy(SubSeq(sorted, 1, Len(sorted) - 1), x, field, order), last)

RECURSIVE SortRowsFrom(_, _, _, _, _)
SortRowsFrom(rows, i, acc, field, order) ==
  IF i > Len(rows) THEN acc
  ELSE SortRowsFrom(rows, i + 1, InsertBy(acc, rows[i], field, order), field, order)

SortRows(rows, field, order) == SortRowsFrom(rows, 1, <<>>, field, order)

\* ------------------------------------------------------------ chartData
\* map.set(item.date, { date: item.date, spent: 0, ... })
NewDay(item) ==
  [date |-> item.date, spent |-> Num(0), revenue |-> Num(0), clicks |-> Num(0),
   conversions |-> Num(0), cpa |-> Num(0), cpc |-> Num(0), roas |-> Num(0), cvr |-> Num(0)]

\* entry.spent += item.spent, and so on
AddToDay(entry, item) ==
  [entry EXCEPT !.spent = RAdd(@, item.spent), !.revenue = RAdd(@, item.revenue),
                !.clicks = RAdd(@, item.clicks), !.conversions = RAdd(@, item.conversions)]

\* The body of base.forEach
AccumulateDay(m, item) ==
  AddToDay(IF MapIndex(m, item.date) = 0 THEN NewDay(item) ELSE m[MapIndex(m, item.date)].value,
           item)

RECURSIVE ForEachBase(_, _, _)
ForEachBase(base, i, m) ==
  IF i > Len(base) THEN m
  ELSE ForEachBase(base, i + 1, MapSet(m, base[i].date, AccumulateDay(m, base[i])))

\* Faulty variant: the entries are left in the order the days were first met.
ChartSort_skipped(entries) == entries

\* sort((a, b) => a.date.localeCompare(b.date)): a date is its YYYY-MM-DD text,
\* whose order is the order of the days.
ChartSort(entries) == SortByDate(entries)

\* The daily ratios, computed from the sums of the day.
DayRatios(d) ==
  [d EXCEPT !.roas = IF Positive(d.spent) THEN RDiv(d.revenue, d.spent) ELSE Num(0),
            !.cpc = IF Positive(d.clicks) THEN RDiv(d.spent, d.clicks) ELSE Num(0),
            !.cpa = IF Positive(d.conversions) THEN RDiv(d.spent, d.conversions) ELSE Num(0),
            !.cvr = IF Positive(d.clicks) THEN RDiv(d.conversions, d.clicks) ELSE Num(0)]

\* The memo's value for a base of records.
ChartOf(base) ==
  [i \in 1..Len(MapValues(ForEachBase(base, 1, <<>>))) |->
     DayRatios(ChartSort(MapValues(ForEachBase(base, 1, <<>>)))[i])]

\* ------------------------------------------------------------ the table view
\* A row whose only non-zero cell is spent.
SpentCells(k) == [spent |-> Num(k), cpc |-> Num(0), roas |-> Num(0), cvr |-> Num(0), cpa |-> Num(0)]

\* Records filteredData can hold: a stored and an uploaded day of campaign
\* "A", an enriched day of campaign "a", and days that carry a spent only.
StoredDay == SheetRecord(SheetRowOf(1, <<"A">>, StoredCells, Undef))
UploadedDay == ExcelRecord(RowOf(2, <<"A">>, UploadedCells))
EnrichedDay ==
  Overlay(SheetRecord(SheetRowOf(1, <<"a">>, StoredCells, Undef)),
          InsightRecord(EntryOf(1, <<"a">>, FullMetrics)))
SpentDay(name, k) == ExcelRecord(RowOf(1, name, SpentCells(k)))

ViewRecords ==
  {StoredDay, UploadedDay, EnrichedDay,
   SpentDay(<<"A">>, 10), SpentDay(<<"a">>, 50), SpentDay(<<"B">>, 30), SpentDay(<<"B">>, 0)}

\* The columns onSort can name: keys of CampaignData, and a key of the second
\* SortField type that no row of this table carries.
SortFields == {"campaignName", "spent", "roas", "fbCpc"}
SortOrders == {"asc", "desc"}

\* useMemo(..., [filteredData, sortField, sortOrder])
TableOf(data, field, order) == SortRows(aggregatedList(data), field, order)

ViewInit == ViewIdle /\ MergeIdle /\ FetchIdle /\ AppIdle /\ ParseIdle /\ StoreIdle

\* setFilteredData(result), and the table and the chart recomputed from it
\* (no date or campaign is selected in a chart: the chart's base is the same
\* records).
SetFilteredData(data) ==
  /\ vPc = "ready"
  /\ filteredData' = data
  /\ aggregatedTableData' = TableOf(data, sortField, sortOrder)
  /\ chartData' = ChartOf(data)
  /\ vPc' = "shown"
  /\ UNCHANGED <<sortField, sortOrder>>
  /\ UNCHANGED nonViewVars

\* onSort(field), and the table recomputed
OnSort(field) ==
  /\ vPc = "shown"
  /\ sortField' = field
  /\ sortOrder' = IF field = sortField
                  THEN (IF sortOrder = "asc" THEN "desc" ELSE "asc")
                  ELSE "desc"
  /\ aggregatedTableData' = TableOf(filteredData, sortField', sortOrder')
  /\ UNCHANGED <<filteredData, vPc, chartData>>
  /\ UNCHANGED nonViewVars

ViewNext ==
  \/ \E data \in SeqUpTo(ViewRecords, MaxViewRows) : SetFilteredData(data)
  \/ \E field \in SortFields : OnSort(field)

ViewSpec == ViewInit /\ [][ViewNext]_vars

\* ------------------------------------------------------------ properties of the table
Shown == vPc = "shown"

\* The sum of a field over the records of one campaign.
RECURSIVE GroupSum(_, _, _)
GroupSum(data, name, field) ==
  IF data = <<>> THEN Num(0)
  ELSE LET rest == GroupSum(Tail(data), name, field)
       IN  IF Head(data).campaignName = name THEN RAdd(Head(data)[field], rest) ELSE rest

GroupNames(data) == {data[i].campaignName : i \in DOMAIN data}

GroupOf(data, name) == SelectSeq(data, LAMBDA r : r.campaignName = name)

\* C18: the table has one row for each campaign of filteredData; the row's spent
\* and revenue are the sums over the campaign's records and its roas is the sum
\* of revenue divided by the sum of spent (0 when nothing was spent).
C18_RatiosFromSums ==
  Shown =>
    /\ {aggregatedTableData[i].campaignName : i \in DOMAIN aggregatedTableData}
         = GroupNames(filteredData)
    /\ Len(aggregatedTableData) = Cardinality(GroupNames(filteredData))
    /\ \A i \in DOMAIN aggregatedTableData :
         LET row == aggregatedTableData[i]
             spent == GroupSum(filteredData, row.campaignName, "spent")
             revenue == GroupSum(filteredData, row.campaignName, "revenue")
         IN  /\ row.spent = spent
             /\ row.revenue = revenue
             /\ row.roas = IF Positive(spent) THEN RDiv(revenue, spent) ELSE Num(0)

\* The group of the stored day (spent 100, revenue 50) and the uploaded day
\* (spent 300, revenue 300) is shown with roas 350/400, which is not the mean
\* 3/4 of the two days' roas.
C18_Witness ==
  /\ Shown
  /\ GroupOf(filteredData, <<"A">>) = <<StoredDay, UploadedDay>>
  /\ StoredDay.spent = Num(100) /\ StoredDay.revenue = Num(50)
  /\ UploadedDay.spent = Num(300) /\ UploadedDay.revenue = Num(300)
  /\ RDiv(RAdd(StoredDay.roas, UploadedDay.roas), Num(2)) = Rat(3, 4)
  /\ \E i \in DOMAIN aggregatedTableData :
       /\ aggregatedTableData[i].campaignName = <<"A">>
       /\ aggregatedTableData[i].roas = Rat(350, 400)

RatioFields == {"roas", "cpc", "cvr", "cpa", "cpm", "ctr", "frequency"}

\* C19: the row of a campaign that has exactly one record in filteredData shows
\* that record's own roas, cpc, cvr, cpa, cpm, ctr and frequency.
C19_SingleRecordKeepsRatios ==
  Shown =>
    \A i \in DOMAIN aggregatedTableData :
      LET row == aggregatedTableData[i]
          group == GroupOf(filteredData, row.campaignName)
      IN  Len(group) = 1 => \A f \in RatioFields : row[f] = group[1][f]

\* The rows before the sort, in the order the campaigns are first met.
Unsorted == aggregatedList(filteredData)

PositionIn(rows, row) == CHOOSE i \in DOMAIN rows : rows[i] = row

BothNumbers(a, b) == TypeOfField(a, sortField) = "number" /\ TypeOfField(b, sortField) = "number"
BothStrings(a, b) == TypeOfField(a, sortField) = "string" /\ TypeOfField(b, sortField) = "string"

\* C20: the table is a permutation of the aggregated rows.  Of two rows, the one
\* shown first has, under 'desc', a value of the sort field that is not below
\* the other's, and under 'asc' one that is not above it, numbers by size and
\* strings by collation.  Two rows whose values are equal, or are not both
\* strings or both numbers, are shown in the order they had before the sort.
C20_SortedByField ==
  Shown =>
    /\ Len(aggregatedTableData) = Len(Unsorted)
    /\ {aggregatedTableData[i] : i \in DOMAIN aggregatedTableData}
         = {Unsorted[i] : i \in DOMAIN Unsorted}
    /\ \A i, j \in DOMAIN aggregatedTableData :
         i < j =>
           LET a == aggregatedTableData[i]
               b == aggregatedTableData[j]
           IN  /\ BothNumbers(a, b) =>
                    IF sortOrder = "desc"
                    THEN NumCompare(a[sortField], b[sortField]) >= 0
                    ELSE NumCompare(a[sortField], b[sortField]) <= 0
               /\ BothStrings(a, b) =>
                    IF sortOrder = "desc"
                    THEN localeCompare(a[sortField], b[sortField]) >= 0
                    ELSE localeCompare(a[sortField], b[sortField]) <= 0
               /\ (\/ ~BothNumbers(a, b) /\ ~BothStrings(a, b)
                   \/ a[sortField] = b[sortField])
                    => PositionIn(Unsorted, a) < PositionIn(Unsorted, b)

\* Campaigns with spent 10, 50 and 30, in that order, are shown as 50, 30, 10
\* under 'desc'.
C20_Witness ==
  /\ Shown /\ sortField = "spent" /\ sortOrder = "desc"
  /\ [i \in DOMAIN filteredData |-> filteredData[i].spent] = <<Num(10), Num(50), Num(30)>>
  /\ [i \in DOMAIN aggregatedTableData |-> aggregatedTableData[i].spent]
       = <<Num(50), Num(30), Num(10)>>

\* ------------------------------------------------------------ key uniqueness of the import merge
\* C30: the result of an import merge holds exactly one record for each
\* (date, campaignName) key of the existing or the incoming set and no other
\* record, also when a set holds several records of one key: under a key of
\* the import the core fields are those of the last incoming record of the
\* key, under any other key the record is the last existing record of the key.
C30_OneRecordPerImportKey ==
  Imported =>
    /\ ImportKeys(mOut) = ImportKeys(mExisting) \cup ImportKeys(mInput)
    /\ Len(mOut) = Cardinality(ImportKeys(mExisting) \cup ImportKeys(mInput))
    /\ \A i, j \in Indices(mOut) : ImportKey(mOut[i]) = ImportKey(mOut[j]) => i = j
    /\ \A k \in ImportKeys(mInput) : \A f \in CoreFields :
         ImportResultHas(k, f, LastWithImportKey(mInput, k)[f])
    /\ \A k \in ImportKeys(mExisting) \ ImportKeys(mInput) :
         \E i \in Indices(mOut) : mOut[i] = LastWithImportKey(mExisting, k)

\* Both sets hold two records of one key, and the keys of the two sets differ:
\* the result has two records.
C30_Witness ==
  /\ Imported
  /\ Len(mExisting) = 2 /\ ImportKey(mExisting[1]) = ImportKey(mExisting[2])
  /\ mExisting[1] # mExisting[2]
  /\ Len(mInput) = 2 /\ ImportKey(mInput[1]) = ImportKey(mInput[2])
  /\ ImportKey(mInput[1]) # ImportKey(mExisting[1])
  /\ Len(mOut) = 2

\* ------------------------------------------------------------ properties of findIndex
\* The header names parseSheetData resolves against, and each field's candidates.
HeaderNames == [i \in 1..Len(pValues[1]) |-> Trim(StringOf(pValues[1][i]))]

FieldNames ==
  [date |-> DateNames, campaign |-> CampaignNames, spent |-> SpentNames, cpc |-> CpcNames,
   roas |-> RoasNames, cvr |-> CvrNames, cpa |-> CpaNames, reach |-> ReachNames,
   impressions |-> ImpressionsNames, cpm |-> CpmNames, ctr |-> CtrNames,
   frequency |-> FrequencyNames]

ExactAt(h, names) == \E k \in DOMAIN names : h = names[k]
FoldedAt(h, names) == \E k \in DOMAIN names : ToLowerCase(h) = ToLowerCase(names[k])
SubstringAt(h, names) ==
  \E k \in DOMAIN names : IsEnglish(names[k]) /\ Includes(ToLowerCase(h), ToLowerCase(names[k]))

\* C24: for every field, when some header equals a candidate exactly the
\* resolved column is one whose header equals a candidate exactly; otherwise,
\* when some header equals a candidate but for case, the resolved column is
\* such a one; and no column is resolved only when no header matches a
\* candidate exactly, but for case, or by containing an English candidate.
C24_StrategiesInPriorityOrder ==
  Parsed =>
    \A f \in DOMAIN FieldNames :
      LET idx == Columns(HeaderNames)[f]
          names == FieldNames[f]
          H == HeaderNames
      IN  /\ (\E i \in DOMAIN H : ExactAt(H[i], names))
               => idx # 0 /\ ExactAt(H[idx], names)
          /\ (\E i \in DOMAIN H : FoldedAt(H[i], names))
               => idx # 0 /\ FoldedAt(H[idx], names)
          /\ idx = 0 <=>
               ~\E i \in DOMAIN H :
                  ExactAt(H[i], names) \/ FoldedAt(H[i], names) \/ SubstringAt(H[i], names)

\* ------------------------------------------------------------ properties of the insight records
\* a / b, 0 when b is 0
RatioOrZero(a, b) == IF Positive(b) THEN RDiv(a, b) ELSE Num(0)

\* What the claim expects of the record built for one raw entry.
RatiosOfEntry(item, r) ==
  LET spend == ParseOrZero(item.spend)
      impressions == ParseOrZero(item.impressions)
      linkClicks == FirstAction(item.actions, "link_click")
      purchases == FirstAction(item.actions, "omni_purchase")
  IN  /\ r.linkClicks = linkClicks
      /\ r.cpc = RatioOrZero(spend, linkClicks)
      /\ r.ctr = RatioOrZero(linkClicks, impressions)
      /\ r.cpm = RatioOrZero(spend, RDiv(impressions, Num(1000)))
      /\ r.cpa = RatioOrZero(spend, purchases)
      /\ r.cvr = RatioOrZero(purchases, linkClicks)

\* C23: a call that returned the entries of a page has built, for each entry,
\* a record whose cpc, ctr and cpm follow from spend, link clicks and
\* impressions, whose cpa is spend / purchases and whose cvr is
\* purchases / link clicks, each 0 when its denominator is 0.
C23_PurchaseRatios ==
  (fbPc = "returned" /\ fbResponse.kind = "page" /\ fbResponse.data # Undef) =>
    /\ Len(fbResult) = Len(fbResponse.data[1])
    /\ \A i \in 1..Len(fbResult) : RatiosOfEntry(fbResponse.data[1][i], fbResult[i])

\* ------------------------------------------------------------ properties of the chart
RECURSIVE FieldSum(_, _)
FieldSum(data, field) ==
  IF data = <<>> THEN Num(0) ELSE RAdd(Head(data)[field], FieldSum(Tail(data), field))

DayRecords(data, day) == SelectSeq(data, LAMBDA r : r.date = day)

DaysOf(data) == {data[i].date : i \in DOMAIN data}

\* An entry of the chart holds the sums of its day and the ratios of the sums.
DayEntryOk(entry, records) ==
  /\ entry.spent = FieldSum(records, "spent")
  /\ entry.revenue = FieldSum(records, "revenue")
  /\ entry.clicks = FieldSum(records, "clicks")
  /\ entry.conversions = FieldSum(records, "conversions")
  /\ entry.roas = RatioOrZero(FieldSum(records, "revenue"), FieldSum(records, "spent"))
  /\ entry.cpc = RatioOrZero(FieldSum(records, "spent"), FieldSum(records, "clicks"))
  /\ entry.cpa = RatioOrZero(FieldSum(records, "spent"), FieldSum(records, "conversions"))
  /\ entry.cvr = RatioOrZero(FieldSum(records, "conversions"), FieldSum(records, "clicks"))

LoadPending == load.pc \in {"awaitSheet", "awaitFb"}
SavePending == upload.pc \in {"saving", "saving2"} \/ sync.pc = "saving" \/ save.pc = "awaiting"
ManualSyncPending == variant = 2 /\ sync.pc \in {"awaitFb", "saving"}

\* C29: a busy flag is set only while an execution that set it still awaits a
\* request: once the load has ended isLoadingData is false, once no save is
\* awaited isSavingToSheet is false, and once handleManualFbLoad has ended
\* isFetchingFbData is false, whether the requests succeeded or failed and
\* also after the return for an empty dataset.
C29_BusyFlagsReleased ==
  /\ isLoadingData => LoadPending
  /\ isSavingToSheet => SavePending
  /\ isFetchingFbData => ManualSyncPending

\* A load that failed, a manual sync that failed and a save that failed have
\* all ended, and no flag is set.
C29_Witness ==
  /\ variant = 2
  /\ load.pc = "done" /\ load.failure = "load"
  /\ sync.pc = "idle" /\ sync.failure = "sync"
  /\ save.pc = "idle" /\ save.failed
  /\ ~isLoadingData /\ ~isSavingToSheet /\ ~isFetchingFbData

\* ------------------------------------------------------------ properties of the order of sync and save
\* The step in which handleUpload starts its own external fetch.
UploadSyncStartsNow == upload.pc # "awaitFb" /\ upload'.pc = "awaitFb"

\* C22: within one upload the save is sent only after the upload's own sync has
\* ended: an upload whose save has been sent and is awaited never goes on to
\* start its external fetch.
C22_SaveAfterSync ==
  [][UploadSyncStartsNow => upload.pc \notin {"saving", "saving2"}]_vars

\* ------------------------------------------------------------ properties of overlapping handlers
\* An import and a sync button's sync that were started from the same loaded
\* working set have both ended without a failure.
BothEnded ==
  /\ upload.pc = "idle" /\ sync.pc = "idle"
  /\ upload.failure = "none" /\ sync.failure = "none"
  /\ Len(upload.newData) > 0 /\ Len(sync.merged) > 0
  /\ upload.raw = sync.raw

ImportKept == ImportKeys(upload.newData) \subseteq ImportKeys(rawData)

EnrichmentKept ==
  \A i \in Indices(sync.merged) : \E j \in Indices(rawData) :
    /\ EnrichKey(rawData[j]) = EnrichKey(sync.merged[i])
    /\ \A f \in EnrichmentFields : rawData[j][f] = sync.merged[i][f]

\* C27: when an import and a sync started from the same working set have both
\* ended, the working set holds the import's records and the sync's enrichment
\* fields.
C27_NoLostUpdate == BothEnded => ImportKept /\ EnrichmentKept

\* ------------------------------------------------------------ the store
\* The Apps Script web app of src/types.ts: doGet reads the sheet, doPost
\* replaces it.  Each call of a Google service is one step of an execution;
\* the steps of a doGet and of a doPost interleave.  The spreadsheet has no
\* sheet named "Data" (the fallback of doGet).
MaxRequests == 3    \* executions started

Blank == StrCell(<<>>)
Text(word) == StrCell(<<word>>)
\* item.date, an ISO date text, kept as the day it names
DayCell(date) == NumCell(Num(date))
\* item.reach || ''
OrBlank(v) == IF Truthy(v) THEN NumCell(v) ELSE Blank
\* row.cpm || 0
OrZeroCell(v) == IF Truthy(v) THEN NumCell(v) ELSE NumCell(Num(0))

\* executeSaveToSheet: headers (first component), header (second component)
SaveHeader(v) ==
  IF v = 1
  THEN << Text("Date"), Text("Campaign Name"), Text("Spent"), Text("CPC"), Text("ROAS"),
          Text("CVR"), Text("CPA"), Text("Reach"), Text("Impressions"), Text("CPM"),
          Text("CTR"), Text("Frequency") >>
  ELSE << Text("Date"), Text("Campaign Name"), Text("Spent"), Text("ROAS"), Text("CPC"),
          Text("CPA"), Text("CVR"), Text("FB Purchases"), Text("FB CPA"), Text("FB CVR"),
          Text("FB CPC"), Text("FB CTR"), Text("CPM"), Text("FB Link Clicks"),
          Text("Impressions") >>

\* dataToSave.map(...): one row of the payload.  The second component's
\* momoCpc, momoCpa, momoCvr, fbCtr and fbLinkClicks are the record's cpc, cpa,
\* cvr, ctr and linkClicks; fbPurchase, fbCpa, fbCvr and fbCpc are fields the
\* record does not carry, and x || 0 gives 0 for them.
SaveRow(v, item) ==
  IF v = 1
  THEN << DayCell(item.date), StrCell(item.campaignName), NumCell(item.spent),
          NumCell(item.cpc), NumCell(item.roas), NumCell(item.cvr), NumCell(item.cpa),
          OrBlank(item.reach), OrBlank(item.impressions), OrBlank(item.cpm),
          OrBlank(item.ctr), OrBlank(item.frequency) >>
  ELSE << DayCell(item.date), StrCell(item.campaignName), NumCell(item.spent),
          NumCell(item.roas), NumCell(item.cpc), NumCell(item.cpa), NumCell(item.cvr),
          OrZeroCell(Undef), OrZeroCell(Undef), OrZeroCell(Undef), OrZeroCell(Undef),
          OrZeroCell(item.ctr), OrZeroCell(item.cpm), OrZeroCell(item.linkClicks),
          OrZeroCell(item.impressions) >>

\* values: [headers, ...rows]
SavePayload(v, data) == <<SaveHeader(v)>> \o [i \in 1..Len(data) |-> SaveRow(v, data[i])]

\* --- the sheet: its cells are the rows of its data range, every row as wide
\* as the range
Larger(a, b) == IF a >= b THEN a ELSE b
Width(grid) == IF grid = <<>> THEN 0 ELSE Len(grid[1])
CellOf(grid, r, c) ==
  IF r \in 1..Len(grid) /\ c \in 1..Len(grid[r]) THEN grid[r][c] ELSE Blank

\* Faulty variant: the sheet is not cleared before the rows are written.
clear_skipped(cells) == cells

\* sheet.clear()
clear(cells) == <<>>

\* sheet.getRange(1, 1, numRows, numCols).setValues(rows): the cells of the
\* range take the rows' values, every other cell keeps its own.
setValues(cells, rows) ==
  [r \in 1..Larger(Len(cells), Len(rows)) |->
    [c \in 1..Larger(Width(cells), Width(rows)) |->
      IF r <= Len(rows) /\ c <= Width(rows) THEN rows[r][c] ELSE CellOf(cells, r, c)]]

\* setValues throws unless every row is numCols wide, and getRange unless
\* numCols is positive.
Writable(rows) == Width(rows) > 0 /\ \A r \in 1..Len(rows) : Len(rows[r]) = Width(rows)

\* sheet.getDataRange().getValues(): an empty sheet gives one empty cell.
getValues(cells) == IF cells = <<>> THEN << <<Blank>> >> ELSE cells

\* The data of doGet's answer for a sheet.
Stored(sh) == IF sh.exists THEN getValues(sh.cells) ELSE <<>>

StoreResult(status, message, data) == [status |-> status, message |-> message, data |-> data]

\* lock.releaseLock() by an execution: the lock is freed if it holds it.
releaseLock(held, who) == IF held = who THEN "free" ELSE held

\* --- what the store starts from, and what is sent to it
SavedSets == { <<>>, <<UploadedDay>>, <<StoredDay, EnrichedDay>> }
InitialSheets ==
  { NoSheet,
    [exists |-> TRUE, cells |-> SavePayload(1, <<StoredDay>>)],
    [exists |-> TRUE, cells |-> SavePayload(2, <<StoredDay, EnrichedDay>>)] }
\* Bodies not built by executeSaveToSheet (the web app answers anyone): no
\* rows, and rows of unequal width.
DirectValues == { <<>>, << <<Text("Date"), Text("Spent")>>, <<DayCell(1)>> >> }

StoreInit ==
  /\ sheet \in InitialSheets /\ lock = "free"
  /\ post = PostIdle /\ get = GetIdle
  /\ client = NoCall /\ requests = 0
  /\ MergeIdle /\ FetchIdle /\ AppIdle /\ ParseIdle /\ ViewIdle

PostArrives(values) ==
  [pc |-> "waitLock", rows |-> values, before |-> sheet, result |-> NoResult]

\* executeSaveToSheet(data) in component v: the return for an empty dataset
\* (first component), or the POST of the payload.
ExecuteSave(v, data) ==
  /\ post.pc \in {"idle", "returned"} /\ requests < MaxRequests
  /\ client' = [pc |-> IF Posts(v, data) THEN "posted" ELSE "returned",
                variant |-> v, data |-> data, before |-> sheet]
  /\ post' = IF Posts(v, data) THEN PostArrives(SavePayload(v, data)) ELSE post
  /\ requests' = requests + 1
  /\ UNCHANGED <<sheet, lock, get>>
  /\ UNCHANGED nonStoreVars

\* A POST from elsewhere.
DirectPost(values) ==
  /\ post.pc \in {"idle", "returned"} /\ requests < MaxRequests
  /\ client' = NoCall
  /\ post' = PostArrives(values)
  /\ requests' = requests + 1
  /\ UNCHANGED <<sheet, lock, get>>
  /\ UNCHANGED nonStoreVars

PostReturns(status, message) ==
  /\ post' = [post EXCEPT !.pc = "returned", !.result = StoreResult(status, message, <<>>)]
  /\ client' = IF client.pc = "posted" THEN [client EXCEPT !.pc = "returned"] ELSE client

\* doPost: lock.waitLock(30000) obtains the lock, or throws after the wait
\* while another execution holds it.
doPost_waitLock ==
  /\ post.pc = "waitLock"
  /\ \/ /\ lock = "free"
        /\ lock' = "post"
        /\ post' = [post EXCEPT !.pc = "locked"]
        /\ UNCHANGED client
     \/ /\ lock # "free"
        /\ UNCHANGED lock
        /\ PostReturns("error", "Server is busy, please try again.")
  /\ UNCHANGED <<sheet, get, requests>>
  /\ UNCHANGED nonStoreVars

\* doPost from JSON.parse to sheet.clear(): the throw for no rows, or the
\* sheet inserted or cleared.
doPost_clear ==
  /\ post.pc = "locked"
  /\ IF Len(post.rows) = 0
     THEN /\ PostReturns("error", "Error: No data provided")
          /\ lock' = releaseLock(lock, "post")
          /\ UNCHANGED sheet
     ELSE /\ sheet' = IF sheet.exists THEN [sheet EXCEPT !.cells = clear(@)]
                      ELSE [exists |-> TRUE, cells |-> <<>>]
          /\ post' = [post EXCEPT !.pc = "cleared"]
          /\ UNCHANGED <<lock, client>>
  /\ UNCHANGED <<get, requests>>
  /\ UNCHANGED nonStoreVars

\* doPost from setValues to its return (the formatting writes no cell).
doPost_write ==
  /\ post.pc = "cleared"
  /\ IF Writable(post.rows)
     THEN /\ sheet' = [sheet EXCEPT !.cells = setValues(@, post.rows)]
          /\ PostReturns("success", "Data saved successfully.")
     ELSE /\ UNCHANGED sheet
          /\ PostReturns("error", "Exception: The number of columns in the data does not match the number of columns in the range.")
  /\ lock' = releaseLock(lock, "post")
  /\ UNCHANGED <<get, requests>>
  /\ UNCHANGED nonStoreVars

\* A GET arrives.
doGet_start ==
  /\ get.pc \in {"idle", "returned"} /\ requests < MaxRequests
  /\ get' = [get EXCEPT !.pc = "tryLock", !.held = FALSE, !.result = NoResult]
  /\ requests' = requests + 1
  /\ UNCHANGED <<sheet, lock, post, client>>
  /\ UNCHANGED nonStoreVars

\* doGet: lock.tryLock(10000) obtains the lock, or returns false after the
\* wait; its result is not looked at.
doGet_tryLock ==
  /\ get.pc = "tryLock"
  /\ \/ /\ lock = "free"
        /\ lock' = "get"
        /\ get' = [get EXCEPT !.pc = "reading", !.held = TRUE]
     \/ /\ lock # "free"
        /\ UNCHANGED lock
        /\ get' = [get EXCEPT !.pc = "reading", !.held = FALSE]
  /\ UNCHANGED <<sheet, post, client, requests>>
  /\ UNCHANGED nonStoreVars

\* doGet from getSheetByName to its return; readAt, old and new note where
\* the doPost execution stood.
doGet_read ==
  /\ get.pc = "reading"
  /\ get' = [get EXCEPT !.pc = "returned",
                        !.readAt = post.pc, !.old = post.before, !.new = post.rows,
                        !.result = StoreResult("success", "", Stored(sheet))]
  /\ lock' = IF get.held THEN releaseLock(lock, "get") ELSE lock
  /\ UNCHANGED <<sheet, post, client, requests>>
  /\ UNCHANGED nonStoreVars

StoreNext ==
  \/ \E v \in {1, 2} : \E data \in SavedSets : ExecuteSave(v, data)
  \/ \E values \in DirectValues : DirectPost(values)
  \/ doPost_waitLock
  \/ doPost_clear
  \/ doPost_write
  \/ doGet_start
  \/ doGet_tryLock
  \/ doGet_read

StoreSpec == StoreInit /\ [][StoreNext]_vars

\* ------------------------------------------------------------ properties of the store
PostSucceeded == post.pc = "returned" /\ post.result.status = "success"

\* C21: after doPost has returned status 'success', the sheet exists and its
\* cells are exactly the posted rows, in order; no row and no cell of the
\* dataset stored before remains, whatever its size was.
C21_WriteReplacesSheet == PostSucceeded => sheet.exists /\ sheet.cells = post.rows

\* A write succeeded over a stored dataset with more rows and more columns.
C21_Witness ==
  /\ PostSucceeded
  /\ post.before.exists
  /\ Len(post.before.cells) > Len(post.rows)
  /\ Width(post.before.cells) > Width(post.rows)
  /\ sheet.cells = post.rows

\* C26: a doGet that read while a doPost stood between clearing the sheet and
\* writing its rows returns the dataset stored before that doPost or the
\* dataset it posts.
C26_NoHalfWrittenRead ==
  (get.pc = "returned" /\ get.readAt = "cleared") =>
    \/ get.result.data = Stored(get.old)
    \/ get.result.data = get.new

\* C28: from a save called with an empty working set on, the sheet is what it
\* was when the save was called.
C28_EmptySaveKeepsStore ==
  (client.pc # "none" /\ Len(client.data) = 0) => sheet = client.before

====
